---- MODULE Spec2Model ----
(***************************************************************************)
(* Verification model of S1-SEE: the partitioned write-ahead log (WALLog), *)
(* the ingest adapter that acknowledges spooled messages, the subscriber   *)
(* store (S1apUeCorrelator), the UE context layer (Correlator) and the     *)
(* rule engine (RuleEngine).                                               *)
(***************************************************************************)
EXTENDS Integers, Sequences, FiniteSets, TLC

(***************************************************************************)
(* Bounds of the model and scaled configuration values.                    *)
(***************************************************************************)
NumPartitions == 2
MaxAppends == 3
MaxReadOffset == 1
MaxRestarts == 1
MaxTime == 1
MaxSubscribers == 2
MaxMessages == 3
MaxRulesets == 1
MaxClock == 3
MaxFailures == 1
NumIngestThreads == 2
MaxIeLen == 5

\* sizes in bytes; a serialized record takes 4 bytes of length prefix plus payload
INDEX_ENTRY_SIZE == 16
\* consumer groups: a plain name, and a name that holds "_p"
Groups == {<<"a">>, <<"a", "_", "p", "1">>}
CommitOffsets == {1, 2}

RecordBytes == 16
\* scaled versions of SegmentInfo::BUFFER_SIZE, Config::max_segment_size,
\* Config::fsync_interval and WALLog::CACHE_TTL (time unit: one clock tick)
BUFFER_SIZE == 32
max_segment_size == 32
fsync_interval == 1
CACHE_TTL == 1
\* milliseconds of one clock tick, for the rule engine's time windows
TickMs == 30000

Partitions == 0..(NumPartitions - 1)
\* threads that call into the log: the ingest threads and, last, the processing thread
Threads == 1..(NumIngestThreads + 1)
ProcessingThread == NumIngestThreads + 1
NoCall == [op |-> "none", pc |-> "out"]
\* the processing thread is not inside process_batch
NoBatch == [pc |-> "idle", partition |-> 0, offset |-> 0, records |-> <<>>, next |-> 1,
            last_offset |-> 0, max_messages |-> 0]
\* no PDU was handed to the decoder, and no message was filled in
NoFrame == [procedure_code |-> 0, pdu_type |-> "none", ies |-> <<>>]
NoCanonical == [decoded |-> FALSE]
\* the first run over the spool has not read a record
NoReplay == [run |-> 1, pos |-> 1, events |-> <<<<>>, <<>>>>]
NoSeg == [none |-> TRUE]
NoCache == [cached |-> FALSE, segments |-> <<>>]
NoRead == [partition |-> 0, offset |-> 0, max_records |-> 0, records |-> <<>>,
           at |-> 0, instance |-> 0, after_append |-> FALSE]
NoLoad == [group |-> <<>>, partition |-> 0, value |-> 0, made |-> FALSE]
\* the last step was an append call that returned
Appended == [NoRead EXCEPT !.after_append = TRUE]


VARIABLES
    \* ---- WALLog ----
    wal_cfg,          \* Config: use_buffering, fsync_on_append
    files,            \* directory partition_<p>: base offset -> [log, idx] file contents
    active_segments,  \* active_segments_: partition -> SegmentInfo or NoSeg
    segment_cache,    \* segment_cache_: partition -> cached listing or NoCache
    cache_timestamp,  \* cache_timestamp_
    now,              \* system clock
    alive,            \* a WALLog instance exists in a running process
    instance,         \* number of WALLog instances constructed so far
    nextMsg,          \* id of the next SignalMessage handed to append
    appendHist,       \* history: results returned by append, in call order
    acks,             \* history: IngestAck messages sent with success = true
    lastRead,         \* history: the read made by the last step, or that it was an append
    consumer_offsets, \* consumer_offsets_: <<group, partition>> -> committed offset
    offset_files,     \* directory offsets: file stem -> the offset the file holds
    committed,        \* history: <<group, partition>> -> offset of the last commit_offset
    lastLoad,         \* history: the load_offset made since the last commit_offset
    \* ---- S1apUeCorrelator ----
    store,            \* the maps and the id counter of the S1apUeCorrelator object
    \* ---- Correlator ----
    contexts,         \* contexts_: subscriber key -> UEContext
    next_unknown_id,  \* next_unknown_id_
    lastCleanup,      \* history: contexts_ before the cleanup_expired made by the last step
    \* ---- RuleEngine ----
    rulesets,         \* rulesets_
    sequence_states,  \* sequence_states_: subscriber key -> list of SequenceState
    procHist,         \* history: the messages processed, with what was returned
    \* ---- Pipeline ----
    batch,            \* where the processing thread is in process_batch, and its locals
    processed,        \* history: <<partition, offset>> -> times handed to the rule engine
    \* ---- threads calling into one WALLog ----
    mutex_,           \* mutex_: the thread that holds it, 0 when it is free
    thread_calls,     \* thread -> the WALLog operation it is in, and how far it got
    \* ---- RealS1APDecoder ----
    raw_frame,        \* the S1AP PDU handed to decode
    canonical_message, \* the CanonicalMessage decode filled in for raw_frame
    \* ---- replays of one spool ----
    replay            \* the run under way, its next record, and each run's events

walVars == <<wal_cfg, files, active_segments, segment_cache, cache_timestamp,
             alive, instance, nextMsg, appendHist, acks>>

offVars == <<consumer_offsets, offset_files, committed, lastLoad>>

storeVars == <<store>>

corrVars == <<contexts, next_unknown_id, lastCleanup>>
ruleVars == <<rulesets, sequence_states>>
pipeVars == <<batch, processed>>
lockVars == <<mutex_, thread_calls>>
decVars == <<raw_frame, canonical_message>>
replayVars == <<replay>>

nonWalVars == <<storeVars, corrVars, ruleVars, procHist, pipeVars, lockVars, decVars,
                replayVars>>
nonStoreVars == <<walVars, offVars, now, lastRead, corrVars, ruleVars, procHist, pipeVars,
                  lockVars, decVars, replayVars>>

vars == <<walVars, offVars, now, lastRead, storeVars, corrVars, ruleVars, procHist, pipeVars,
          lockVars, decVars, replayVars>>

(***************************************************************************)
(* WALLog helpers                                                          *)
(***************************************************************************)
SetMax(S) == CHOOSE x \in S : \A y \in S : y <= x

\* WALLog::partition_for_message: hash(source_id ":" source_sequence) % num_partitions
partition_for_message(m) == m.hash % NumPartitions

\* the directory scan of get_or_create_segment: base_offset ends one above the
\* highest existing segment base
RECURSIVE ScanBase(_, _)
ScanBase(S, base) ==
    IF S = {} THEN base
    ELSE LET s == CHOOSE x \in S : TRUE
         IN ScanBase(S \ {s}, IF s >= base THEN s + 1 ELSE base)

\* std::ofstream::write: the bytes reach the stream buffer; whether the stream
\* buffers of the segment are written through to the files by this call is up
\* to the library (spill)
OfWrite(stream, file, data, spill) ==
    IF spill THEN [stream |-> <<>>, file |-> file \o stream \o data]
    ELSE [stream |-> stream \o data, file |-> file]

\* WALLog::open_segment_files: std::ios::app creates the files when missing
open_segment_files(dir, base) ==
    IF base \in DOMAIN dir THEN dir ELSE (base :> [log |-> <<>>, idx |-> <<>>]) @@ dir

\* the new-segment branch of WALLog::get_or_create_segment
NewSegment(dir) ==
    LET base == ScanBase(DOMAIN dir, 0)
        cur == IF base \in DOMAIN dir /\ Len(dir[base].idx) > 0
               THEN base + Len(dir[base].idx)
               ELSE base
    IN [base_offset |-> base, current_offset |-> cur, file_size |-> 0,
        log_buffer |-> <<>>, idx_buffer |-> <<>>,
        log_stream |-> <<>>, idx_stream |-> <<>>, last_fsync |-> now]

\* WALLog::flush_segment_buffers on segment seg whose files are f
flush_segment_buffers(seg, f) ==
    LET lg == IF seg.log_buffer # <<>>
              THEN [buf |-> <<>>, stream |-> <<>>,
                    file |-> f.log \o seg.log_stream \o seg.log_buffer]
              ELSE [buf |-> seg.log_buffer, stream |-> seg.log_stream, file |-> f.log]
        ix == IF seg.idx_buffer # <<>>
              THEN [buf |-> <<>>, stream |-> <<>>,
                    file |-> f.idx \o seg.idx_stream \o seg.idx_buffer]
              ELSE [buf |-> seg.idx_buffer, stream |-> seg.idx_stream, file |-> f.idx]
    IN [seg |-> [seg EXCEPT !.log_buffer = lg.buf, !.log_stream = lg.stream,
                            !.idx_buffer = ix.buf, !.idx_stream = ix.stream],
        file |-> [log |-> lg.file, idx |-> ix.file]]

\* WALLog::close_segment_files: flush the buffers, then close both streams
close_segment_files(seg, f) ==
    LET fl == flush_segment_buffers(seg, f)
    IN [log |-> fl.file.log \o fl.seg.log_stream,
        idx |-> fl.file.idx \o fl.seg.idx_stream]

\* the directory after closing every active segment
CloseAll ==
    [p \in Partitions |->
        IF active_segments[p] = NoSeg THEN files[p]
        ELSE [files[p] EXCEPT ![active_segments[p].base_offset] =
                 close_segment_files(active_segments[p], @)]]

\* std::sort of the directory listing
RECURSIVE SortedSeq(_)
SortedSeq(S) ==
    IF S = {} THEN <<>>
    ELSE LET m == CHOOSE x \in S : \A y \in S : x <= y
         IN <<m>> \o SortedSeq(S \ {m})

\* WALLog::get_segments_for_partition: the listing returned and the cache afterwards
get_segments_for_partition(p) ==
    LET cache_valid == (now - cache_timestamp) < CACHE_TTL
    IN IF cache_valid /\ segment_cache[p].cached
       THEN [segments |-> segment_cache[p].segments, cache |-> segment_cache,
             stamp |-> cache_timestamp]
       ELSE LET segs == SortedSeq(DOMAIN files[p])
            IN [segments |-> segs, cache |-> [segment_cache EXCEPT
                                     ![p] = [cached |-> TRUE, segments |-> segs]],
                stamp |-> now]

\* the binary search of WALLog::read over the index file
RECURSIVE BinSearch(_, _, _, _, _)
BinSearch(idx, offset, left, right, res) ==
    IF left > right THEN res
    ELSE LET mid == left + ((right - left) \div 2)
             e == idx[mid + 1]
         IN IF e.offset < offset
            THEN BinSearch(idx, offset, mid + 1, right, res)
            ELSE BinSearch(idx, offset, left, mid - 1,
                           [found |-> TRUE, position |-> e.position])

\* the record loop of WALLog::read, from record number k of the log file
RECURSIVE ReadLog(_, _, _, _, _)
ReadLog(log, k, offset, max_records, records) ==
    IF Len(records) >= max_records \/ k > Len(log) THEN records
    ELSE ReadLog(log, k + 1, offset, max_records,
                 IF log[k].offset >= offset THEN Append(records, log[k]) ELSE records)

\* the segment loop of WALLog::read
RECURSIVE ReadSegments(_, _, _, _, _, _)
ReadSegments(segs, i, dir, offset, max_records, records) ==
    IF i > Len(segs) THEN records
    ELSE LET base == segs[i]
             skip == ReadSegments(segs, i + 1, dir, offset, max_records, records)
         IN IF offset < base THEN skip
            ELSE IF base \notin DOMAIN dir THEN skip
            ELSE IF Len(dir[base].idx) * INDEX_ENTRY_SIZE < INDEX_ENTRY_SIZE THEN skip
            ELSE LET bs == BinSearch(dir[base].idx, offset, 0, Len(dir[base].idx) - 1,
                                     [found |-> FALSE, position |-> 0])
                 IN IF ~bs.found THEN skip
                    ELSE LET got == ReadLog(dir[base].log, (bs.position \div RecordBytes) + 1,
                                            offset, max_records, records)
                         IN IF Len(got) >= max_records THEN got
                            ELSE ReadSegments(segs, i + 1, dir, offset, max_records, got)

\* WALLog::read(partition, offset, max_records)
WalRead(p, offset, max_records) ==
    ReadSegments(get_segments_for_partition(p).segments, 1, files[p],
                 offset, max_records, <<>>)

\* std::to_string of a non-negative integer, as a sequence of characters
Digits == <<"0", "1", "2", "3", "4", "5", "6", "7", "8", "9">>

RECURSIVE to_string(_)
to_string(n) ==
    IF n < 10 THEN <<Digits[n + 1]>> ELSE to_string(n \div 10) \o <<Digits[(n % 10) + 1]>>

IsDigit(c) == \E d \in 1..10 : Digits[d] = c
DigitValue(c) == (CHOOSE d \in 1..10 : Digits[d] = c) - 1

\* std::stoi: the value of the leading decimal digits; NoInt when there is none
\* (std::invalid_argument is thrown)
NoInt == -1

RECURSIVE LeadingDigits(_, _)
LeadingDigits(str, acc) ==
    IF str # <<>> /\ IsDigit(Head(str))
    THEN LeadingDigits(Tail(str), 10 * acc + DigitValue(Head(str)))
    ELSE acc

stoi(str) == IF str # <<>> /\ IsDigit(Head(str)) THEN LeadingDigits(str, 0) ELSE NoInt

\* WALLog::offset_file_path: the stem of offsets/<group>_p<partition>.offset
offset_file_path(group, partition) == group \o <<"_", "p">> \o to_string(partition)

\* std::string::find("_p"): the first position of "_p" in a stem (from 1), 0 for npos
FindP(stem) ==
    LET at == {i \in 1..(Len(stem) - 1) : stem[i] = "_" /\ stem[i + 1] = "p"}
    IN IF at = {} THEN 0 ELSE CHOOSE i \in at : \A j \in at : i <= j

\* the <<group, partition>> that load_consumer_offsets reads from a file stem
ParsedKey(stem) ==
    <<SubSeq(stem, 1, FindP(stem) - 1), stoi(SubSeq(stem, FindP(stem) + 2, Len(stem)))>>

\* a stem makes load_consumer_offsets throw out of the constructor
LoadThrows(dir) ==
    \E stem \in DOMAIN dir : FindP(stem) # 0 /\ ParsedKey(stem)[2] = NoInt

\* WALLog::load_consumer_offsets: the maps the constructor can build from the
\* offset files; the order of the directory iteration decides which file wins
\* where two stems parse to one <<group, partition>>
load_consumer_offsets(dir) ==
    LET stems == {stem \in DOMAIN dir : FindP(stem) # 0}
        keys == {ParsedKey(stem) : stem \in stems}
    IN {f \in [keys -> {dir[stem] : stem \in stems}] :
           \A k \in keys : \E stem \in stems : ParsedKey(stem) = k /\ dir[stem] = f[k]}

\* WALLog::load_offset on the in-memory map
load_offset(offsets, group, partition) ==
    IF <<group, partition>> \in DOMAIN offsets THEN offsets[<<group, partition>>] ELSE 0

\* m with key k set to v
MapPut(m, k, v) == [x \in DOMAIN m \cup {k} |-> IF x = k THEN v ELSE m[x]]

(***************************************************************************)
(* S1apUeCorrelator: the subscriber store.  A std::optional is a set with  *)
(* at most one element; an identifier string is a sequence of characters.  *)
(***************************************************************************)
has_value(o) == o # {}
value(o) == CHOOSE v \in o : TRUE

\* std::unordered_map operations: find (0 when absent), erase, operator[]=
Find(f, k) == IF k \in DOMAIN f THEN f[k] ELSE 0
Erase(f, k) == [x \in (DOMAIN f) \ {k} |-> f[x]]
Put(f, k, v) == [x \in (DOMAIN f) \cup {k} |-> IF x = k THEN v ELSE f[x]]

\* SubscriberRecord()
NewRecord ==
    [imsi |-> {}, tmsi |-> {}, enb_ue_s1ap_id |-> {}, mme_ue_s1ap_id |-> {},
     teids |-> {}, imeisv |-> {}]

\* S1apUeCorrelator::S1apUeCorrelator
NewStore ==
    [subscriber_records |-> <<>>, next_subscriber_id |-> 1,
     imsi_to_subscriber_id |-> <<>>, tmsi_to_subscriber_id |-> <<>>,
     enb_ue_s1ap_id_to_subscriber_id |-> <<>>, mme_ue_s1ap_id_to_subscriber_id |-> <<>>,
     teid_to_subscriber_id |-> <<>>, imeisv_to_subscriber_id |-> <<>>]

isdigit(c) == c \in {"0", "1", "2", "3", "4", "5", "6", "7", "8", "9"}
isxdigit(c) == isdigit(c) \/ c \in {"a", "b", "c", "d", "e", "f", "A", "B", "C", "D", "E", "F"}
tolower(c) ==
    CASE c = "A" -> "a" [] c = "B" -> "b" [] c = "C" -> "c"
      [] c = "D" -> "d" [] c = "E" -> "e" [] c = "F" -> "f" [] OTHER -> c

normalizeImsi(imsi) == SelectSeq(imsi, isdigit)

normalizeTmsi(tmsi) ==
    LET hex == SelectSeq(tmsi, isxdigit)
        normalized == [i \in 1..Len(hex) |-> tolower(hex[i])]
    IN IF Len(normalized) > 2 /\ SubSeq(normalized, 1, 2) = <<"0", "x">>
       THEN SubSeq(normalized, 3, Len(normalized))
       ELSE normalized

normalizeImeisv(imeisv) == normalizeImsi(imeisv)

associateImsi(st, id, imsi) ==
    LET sub == st.subscriber_records[id]
        idx == IF has_value(sub.imsi) THEN Erase(st.imsi_to_subscriber_id, value(sub.imsi))
               ELSE st.imsi_to_subscriber_id
    IN [st EXCEPT !.subscriber_records[id].imsi = {imsi},
                  !.imsi_to_subscriber_id = Put(idx, imsi, id)]

associateTmsi(st, id, tmsi) ==
    LET sub == st.subscriber_records[id]
        idx == IF has_value(sub.tmsi) THEN Erase(st.tmsi_to_subscriber_id, value(sub.tmsi))
               ELSE st.tmsi_to_subscriber_id
    IN [st EXCEPT !.subscriber_records[id].tmsi = {tmsi},
                  !.tmsi_to_subscriber_id = Put(idx, tmsi, id)]

associateImeisv(st, id, imeisv) ==
    LET sub == st.subscriber_records[id]
        idx == IF has_value(sub.imeisv)
               THEN Erase(st.imeisv_to_subscriber_id, value(sub.imeisv))
               ELSE st.imeisv_to_subscriber_id
    IN [st EXCEPT !.subscriber_records[id].imeisv = {imeisv},
                  !.imeisv_to_subscriber_id = Put(idx, imeisv, id)]

associateEnbUeS1apId(st, id, enb) ==
    LET other == Find(st.enb_ue_s1ap_id_to_subscriber_id, enb)
        recs1 == IF other # 0 /\ other # id /\ other \in DOMAIN st.subscriber_records
                 THEN [st.subscriber_records EXCEPT ![other].enb_ue_s1ap_id = {}]
                 ELSE st.subscriber_records
        sub == recs1[id]
        idx == IF has_value(sub.enb_ue_s1ap_id) /\ value(sub.enb_ue_s1ap_id) # enb
               THEN Erase(st.enb_ue_s1ap_id_to_subscriber_id, value(sub.enb_ue_s1ap_id))
               ELSE st.enb_ue_s1ap_id_to_subscriber_id
    IN [st EXCEPT !.subscriber_records = [recs1 EXCEPT ![id].enb_ue_s1ap_id = {enb}],
                  !.enb_ue_s1ap_id_to_subscriber_id = Put(idx, enb, id)]

associateMmeUeS1apId(st, id, mme) ==
    LET other == Find(st.mme_ue_s1ap_id_to_subscriber_id, mme)
        recs1 == IF other # 0 /\ other # id /\ other \in DOMAIN st.subscriber_records
                 THEN [st.subscriber_records EXCEPT ![other].mme_ue_s1ap_id = {}]
                 ELSE st.subscriber_records
        sub == recs1[id]
        idx == IF has_value(sub.mme_ue_s1ap_id) /\ value(sub.mme_ue_s1ap_id) # mme
               THEN Erase(st.mme_ue_s1ap_id_to_subscriber_id, value(sub.mme_ue_s1ap_id))
               ELSE st.mme_ue_s1ap_id_to_subscriber_id
    IN [st EXCEPT !.subscriber_records = [recs1 EXCEPT ![id].mme_ue_s1ap_id = {mme}],
                  !.mme_ue_s1ap_id_to_subscriber_id = Put(idx, mme, id)]

associateTeid(st, id, teid) ==
    LET old == Find(st.teid_to_subscriber_id, teid)
        recs1 == IF old # 0 /\ old # id /\ old \in DOMAIN st.subscriber_records
                 THEN [st.subscriber_records EXCEPT ![old].teids = @ \ {teid}]
                 ELSE st.subscriber_records
    IN [st EXCEPT !.subscriber_records = [recs1 EXCEPT ![id].teids = @ \cup {teid}],
                  !.teid_to_subscriber_id = Put(st.teid_to_subscriber_id, teid, id)]

removeImsiAssociation(st, imsi) ==
    LET id == Find(st.imsi_to_subscriber_id, imsi)
    IN IF id = 0 THEN st
       ELSE [st EXCEPT !.subscriber_records =
                           IF id \in DOMAIN @ THEN [@ EXCEPT ![id].imsi = {}] ELSE @,
                       !.imsi_to_subscriber_id = Erase(@, imsi)]

removeTmsiAssociation(st, tmsi) ==
    LET id == Find(st.tmsi_to_subscriber_id, tmsi)
    IN IF id = 0 THEN st
       ELSE [st EXCEPT !.subscriber_records =
                           IF id \in DOMAIN @ THEN [@ EXCEPT ![id].tmsi = {}] ELSE @,
                       !.tmsi_to_subscriber_id = Erase(@, tmsi)]

removeImeisvAssociation(st, imeisv) ==
    LET id == Find(st.imeisv_to_subscriber_id, imeisv)
    IN IF id = 0 THEN st
       ELSE [st EXCEPT !.subscriber_records =
                           IF id \in DOMAIN @ THEN [@ EXCEPT ![id].imeisv = {}] ELSE @,
                       !.imeisv_to_subscriber_id = Erase(@, imeisv)]

removeEnbUeS1apIdAssociation(st, enb) ==
    LET id == Find(st.enb_ue_s1ap_id_to_subscriber_id, enb)
    IN IF id = 0 THEN st
       ELSE [st EXCEPT !.subscriber_records =
                           IF id \in DOMAIN @ THEN [@ EXCEPT ![id].enb_ue_s1ap_id = {}] ELSE @,
                       !.enb_ue_s1ap_id_to_subscriber_id = Erase(@, enb)]

removeMmeUeS1apIdAssociation(st, mme) ==
    LET id == Find(st.mme_ue_s1ap_id_to_subscriber_id, mme)
    IN IF id = 0 THEN st
       ELSE [st EXCEPT !.subscriber_records =
                           IF id \in DOMAIN @ THEN [@ EXCEPT ![id].mme_ue_s1ap_id = {}] ELSE @,
                       !.mme_ue_s1ap_id_to_subscriber_id = Erase(@, mme)]

removeTeidAssociation(st, teid) ==
    LET id == Find(st.teid_to_subscriber_id, teid)
    IN IF id = 0 THEN st
       ELSE [st EXCEPT !.subscriber_records =
                           IF id \in DOMAIN @ THEN [@ EXCEPT ![id].teids = @ \ {teid}] ELSE @,
                       !.teid_to_subscriber_id = Erase(@, teid)]

\* the next lookup of a chain is tried only when the ones before found nothing
OrElse(found, next) == IF found = 0 THEN next ELSE found

\* the associate and remove operations, by the kind of identifier
associate(st, kind, id, v) ==
    CASE kind = "imsi" -> associateImsi(st, id, v)
      [] kind = "tmsi" -> associateTmsi(st, id, v)
      [] kind = "imeisv" -> associateImeisv(st, id, v)
      [] kind = "mme_ue_s1ap_id" -> associateMmeUeS1apId(st, id, v)
      [] kind = "enb_ue_s1ap_id" -> associateEnbUeS1apId(st, id, v)
      [] kind = "teid" -> associateTeid(st, id, v)

removeAssociation(st, kind, v) ==
    CASE kind = "imsi" -> removeImsiAssociation(st, v)
      [] kind = "tmsi" -> removeTmsiAssociation(st, v)
      [] kind = "imeisv" -> removeImeisvAssociation(st, v)
      [] kind = "mme_ue_s1ap_id" -> removeMmeUeS1apIdAssociation(st, v)
      [] kind = "enb_ue_s1ap_id" -> removeEnbUeS1apIdAssociation(st, v)
      [] kind = "teid" -> removeTeidAssociation(st, v)

\* an operation applied only when the optional argument holds a value
IfGiven(kind, st, id, o) == IF has_value(o) THEN associate(st, kind, id, value(o)) ELSE st
RemoveIf(kind, cond, st, o) ==
    IF cond /\ has_value(o) THEN removeAssociation(st, kind, value(o)) ELSE st

\* the lookup of S1apUeCorrelator::getOrCreateSubscriber: the subscriber id found
\* for the identifiers given, 0 when a new record has to be created
FindSubscriber(st, imsi, tmsi, enb, mme, teid, imeisv) ==
    LET recs == st.subscriber_records
        byImsi == IF has_value(imsi) THEN Find(st.imsi_to_subscriber_id, value(imsi)) ELSE 0
        byTmsi == OrElse(byImsi, IF has_value(tmsi)
                                 THEN Find(st.tmsi_to_subscriber_id, value(tmsi)) ELSE 0)
        byImeisv == OrElse(byTmsi, IF has_value(imeisv)
                                   THEN Find(st.imeisv_to_subscriber_id, value(imeisv)) ELSE 0)
        mme_it == IF has_value(mme) THEN Find(st.mme_ue_s1ap_id_to_subscriber_id, value(mme))
                  ELSE 0
        enb_it == IF has_value(enb) THEN Find(st.enb_ue_s1ap_id_to_subscriber_id, value(enb))
                  ELSE 0
        byBoth == OrElse(byImeisv, IF has_value(mme) /\ has_value(enb)
                                      /\ mme_it # 0 /\ enb_it # 0 /\ mme_it = enb_it
                                   THEN mme_it ELSE 0)
        byMme == OrElse(byBoth, mme_it)
        byEnb == OrElse(byMme, enb_it)
        byTeid == OrElse(byEnb, IF has_value(teid)
                                THEN Find(st.teid_to_subscriber_id, value(teid)) ELSE 0)
        \* fallback: only S1AP ids given and nothing found through the indexes
        matching == {id \in DOMAIN recs :
                        /\ (~has_value(mme) \/ recs[id].mme_ue_s1ap_id = mme)
                        /\ (~has_value(enb) \/ recs[id].enb_ue_s1ap_id = enb)
                        /\ (has_value(recs[id].mme_ue_s1ap_id)
                              \/ has_value(recs[id].enb_ue_s1ap_id))}
        stable == {id \in DOMAIN recs : has_value(recs[id].imsi) \/ has_value(recs[id].tmsi)}
        fallback == IF Cardinality(matching) = 1 THEN CHOOSE id \in matching : TRUE
                    ELSE IF stable # {} THEN SetMax(stable)
                    ELSE 0
    IN OrElse(byTeid, IF ~has_value(imsi) /\ ~has_value(tmsi) /\ ~has_value(imeisv)
                         /\ (has_value(mme) \/ has_value(enb))
                      THEN fallback ELSE 0)

\* getOrCreateSubscriber after the lookup: the record is created when none was
\* found, then every identifier given is associated to it
CreateAndAssociate(st, found, imsi, tmsi, enb, mme, teid, imeisv) ==
    LET id == IF found = 0 THEN st.next_subscriber_id ELSE found
        s0 == IF found = 0
              THEN [st EXCEPT !.next_subscriber_id = @ + 1,
                              !.subscriber_records = Put(@, id, NewRecord)]
              ELSE st
        s1 == IfGiven("imsi", s0, id, imsi)
        s2 == IfGiven("tmsi", s1, id, tmsi)
        s3 == IfGiven("enb_ue_s1ap_id", s2, id, enb)
        s4 == IfGiven("mme_ue_s1ap_id", s3, id, mme)
        s5 == IfGiven("teid", s4, id, teid)
        s6 == IfGiven("imeisv", s5, id, imeisv)
    IN [st |-> s6, id |-> id]

\* S1apUeCorrelator::getOrCreateSubscriber: the store afterwards and the record's id
getOrCreateSubscriber(st, imsi, tmsi, enb, mme, teid, imeisv) ==
    CreateAndAssociate(st, FindSubscriber(st, imsi, tmsi, enb, mme, teid, imeisv),
                       imsi, tmsi, enb, mme, teid, imeisv)

\* S1apUeCorrelator::getSubscriberBy...: 0 stands for nullptr
getSubscriberBy(st, index, key) ==
    LET id == Find(index, key)
    IN IF id # 0 /\ id \in DOMAIN st.subscriber_records THEN id ELSE 0

\* S1AP procedure codes and PDU types used by the correlation code
id_UEContextRelease == 23
id_initialUEMessage == 12
INITIATING_MESSAGE == 0
SUCCESSFUL_OUTCOME == 1

RECURSIVE associateTeids(_, _, _)
associateTeids(st, id, teids) ==
    IF teids = {} THEN st
    ELSE LET t == CHOOSE x \in teids : TRUE
         IN associateTeids(associateTeid(st, id, t), id, teids \ {t})

\* processS1apFrame after its call of getOrCreateSubscriber (result g): the
\* record is looked up again, the S1AP ids and TEIDs are associated to it, and a
\* UEContextRelease SuccessfulOutcome removes the S1AP ids
AfterGetOrCreate(g, f, imsi_norm, tmsi_norm, imeisv_norm) ==
    LET mme == f.mme_ue_s1ap_id
        enb == f.enb_ue_s1ap_id
        s0 == g.st
        a == IF has_value(imsi_norm) THEN Find(s0.imsi_to_subscriber_id, value(imsi_norm)) ELSE 0
        b == OrElse(a, IF has_value(tmsi_norm)
                       THEN Find(s0.tmsi_to_subscriber_id, value(tmsi_norm)) ELSE 0)
        c == OrElse(b, IF has_value(imeisv_norm)
                       THEN Find(s0.imeisv_to_subscriber_id, value(imeisv_norm)) ELSE 0)
        d == OrElse(c, IF has_value(mme)
                       THEN Find(s0.mme_ue_s1ap_id_to_subscriber_id, value(mme)) ELSE 0)
        subscriber_id == OrElse(d, IF has_value(enb)
                                   THEN Find(s0.enb_ue_s1ap_id_to_subscriber_id, value(enb))
                                   ELSE 0)
        s1 == IfGiven("mme_ue_s1ap_id", s0, subscriber_id,
                      IF subscriber_id # 0 THEN mme ELSE {})
        s2 == IfGiven("enb_ue_s1ap_id", s1, subscriber_id,
                      IF subscriber_id # 0 THEN enb ELSE {})
        s3 == associateTeids(s2, subscriber_id, IF subscriber_id # 0 THEN f.teids ELSE {})
        release == f.procedure_code = id_UEContextRelease /\ f.pdu_type = SUCCESSFUL_OUTCOME
        s4 == RemoveIf("mme_ue_s1ap_id", release, s3, mme)
        s5 == RemoveIf("enb_ue_s1ap_id", release, s4, enb)
    IN [st |-> s5, id |-> g.id]

\* S1apUeCorrelator::processS1apFrame on the identifiers the extractors find in
\* the frame: the store afterwards and the id of the record returned (0: nullptr)
processS1apFrame(st, f) ==
    LET imsi_norm == IF f.imsis = <<>> THEN {} ELSE {normalizeImsi(f.imsis[1])}
        tmsi_norm == IF f.tmsis = <<>> THEN {} ELSE {normalizeTmsi(f.tmsis[1])}
        imeisv_norm == IF f.imeisvs = <<>> THEN {} ELSE {normalizeImeisv(f.imeisvs[1])}
    IN IF has_value(imsi_norm) \/ has_value(tmsi_norm) \/ has_value(imeisv_norm)
          \/ has_value(f.mme_ue_s1ap_id) \/ has_value(f.enb_ue_s1ap_id)
       THEN AfterGetOrCreate(getOrCreateSubscriber(st, imsi_norm, tmsi_norm,
                                                   f.enb_ue_s1ap_id, f.mme_ue_s1ap_id, {},
                                                   imeisv_norm),
                             f, imsi_norm, tmsi_norm, imeisv_norm)
       ELSE [st |-> st, id |-> 0]

(***************************************************************************)
(* Correlator: UE contexts on top of the subscriber store.  A string is a  *)
(* sequence of characters; a subscriber key is its prefix followed by the  *)
(* characters of the identifier, and the empty key is <<>>.                *)
(***************************************************************************)
HexChars == <<"0", "1", "2", "3", "4", "5", "6", "7", "8", "9", "a", "b", "c", "d", "e", "f">>

RECURSIVE HexDigits(_)
HexDigits(n) ==
    IF n < 16 THEN <<HexChars[n + 1]>>
    ELSE HexDigits(n \div 16) \o <<HexChars[(n % 16) + 1]>>

RECURSIVE setfill0(_, _)
setfill0(s, w) == IF Len(s) >= w THEN s ELSE setfill0(<<"0">> \o s, w)

\* hex << std::hex << std::setfill('0') << std::setw(w) << n
ToHex(n, w) == setfill0(HexDigits(n), w)

HexVal(c) == CHOOSE i \in 0..15 : HexChars[i + 1] = tolower(c)

RECURSIVE HexPrefix(_, _, _)
HexPrefix(s, i, acc) ==
    IF i > Len(s) \/ ~isxdigit(s[i]) THEN acc
    ELSE HexPrefix(s, i + 1, acc * 16 + HexVal(s[i]))

\* static_cast<uint32_t>(std::stoul(hex_str, nullptr, 16)) inside try/catch:
\* no value when the string does not start with a hex digit.  The strings
\* parsed are the at most 8 hex digits written from a uint32_t field, so the
\* cast never truncates.
stoul16(s) ==
    IF s = <<>> \/ ~isxdigit(s[1]) THEN {}
    ELSE {HexPrefix(s, 1, 0)}

\* the IEs get_or_create_context adds to the S1apParseResult from the message fields
MmeIe(m) == IF m.mme_ue_s1ap_id # 0 THEN {ToHex(m.mme_ue_s1ap_id, 8)} ELSE {}
EnbIe(m) == IF m.enb_ue_s1ap_id # 0 THEN {ToHex(m.enb_ue_s1ap_id, 6)} ELSE {}

\* s1ap_parser::extractS1apIds on an individual id IE
IeId(ie) == IF has_value(ie) THEN stoul16(value(ie)) ELSE {}

\* the S1apParseResult built from a CanonicalMessage, as processS1apFrame's
\* extractors see it; nas_imsi is what the NAS decoder finds in the NAS-PDU IE
\* of decoded_tree; pdu_type is never assigned by get_or_create_context
FrameOf(m, pdu_type) ==
    [procedure_code |-> m.procedure_code % 256,
     pdu_type |-> pdu_type,
     imsis |-> m.nas_imsi, tmsis |-> <<>>, imeisvs |-> <<>>,
     mme_ue_s1ap_id |-> IeId(MmeIe(m)),
     enb_ue_s1ap_id |-> IeId(EnbIe(m)),
     teids |-> {}]

optional(s) == IF s = <<>> THEN {} ELSE {s}

NewContext == [imsi |-> {}, tmsi |-> {}, mme_ue_s1ap_id |-> {}, enb_ue_s1ap_id |-> {},
               imei |-> {}, last_seen |-> 0, handover_in_progress |-> FALSE]

\* the identifiers get_or_create_context takes from the message itself
MessageIds(m) ==
    [imsi |-> optional(m.imsi), tmsi |-> optional(m.tmsi),
     mme_ue_s1ap_id |-> IeId(MmeIe(m)), enb_ue_s1ap_id |-> IeId(EnbIe(m)),
     imei |-> optional(m.imei)]

\* the test of the loop over contexts_
ContextMatches(ids, context) ==
    \/ (has_value(ids.imsi) /\ ids.imsi = context.imsi)
    \/ (has_value(ids.tmsi) /\ ids.tmsi = context.tmsi)
    \/ (has_value(ids.mme_ue_s1ap_id) /\ ids.mme_ue_s1ap_id = context.mme_ue_s1ap_id)
    \/ (has_value(ids.enb_ue_s1ap_id) /\ ids.enb_ue_s1ap_id = context.enb_ue_s1ap_id)
    \/ (has_value(ids.imei) /\ ids.imei = context.imei)

\* the keys the loop over contexts_ may stop at: contexts_ is an unordered_map,
\* so any matching context can be the first one met
MatchingKeys(ctxs, m) == {k \in DOMAIN ctxs : ContextMatches(MessageIds(m), ctxs[k])}

\* merge of the message's identifiers with those of the existing context
MergeIds(ids, context) ==
    [imsi |-> IF has_value(ids.imsi) THEN ids.imsi ELSE context.imsi,
     tmsi |-> IF has_value(ids.tmsi) THEN ids.tmsi ELSE context.tmsi,
     mme_ue_s1ap_id |-> IF has_value(ids.mme_ue_s1ap_id) THEN ids.mme_ue_s1ap_id
                        ELSE context.mme_ue_s1ap_id,
     enb_ue_s1ap_id |-> IF has_value(ids.enb_ue_s1ap_id) THEN ids.enb_ue_s1ap_id
                        ELSE context.enb_ue_s1ap_id,
     imei |-> IF has_value(ids.imei) THEN ids.imei ELSE context.imei]

UEContextReleaseComplete == "UEContextReleaseComplete"

\* the getSubscriberBy... chain used for a release message
LookupForRelease(st, ids) ==
    IF has_value(ids.imsi) THEN getSubscriberBy(st, st.imsi_to_subscriber_id, value(ids.imsi))
    ELSE IF has_value(ids.tmsi)
    THEN getSubscriberBy(st, st.tmsi_to_subscriber_id, value(ids.tmsi))
    ELSE IF has_value(ids.mme_ue_s1ap_id)
    THEN getSubscriberBy(st, st.mme_ue_s1ap_id_to_subscriber_id, value(ids.mme_ue_s1ap_id))
    ELSE IF has_value(ids.enb_ue_s1ap_id)
    THEN getSubscriberBy(st, st.enb_ue_s1ap_id_to_subscriber_id, value(ids.enb_ue_s1ap_id))
    ELSE IF has_value(ids.imei)
    THEN getSubscriberBy(st, st.imeisv_to_subscriber_id, value(ids.imei))
    ELSE 0

\* the subscriber key generated from the record; unknown: the value of next_unknown_id_
KeyOf(rec, unknown) ==
    IF has_value(rec.imsi) THEN <<"imsi:">> \o value(rec.imsi)
    ELSE IF has_value(rec.tmsi) THEN <<"tmsi:">> \o value(rec.tmsi)
    ELSE IF has_value(rec.mme_ue_s1ap_id)
    THEN <<"mme_ue_s1ap_id:">> \o to_string(value(rec.mme_ue_s1ap_id))
    ELSE IF has_value(rec.enb_ue_s1ap_id)
    THEN <<"enb_ue_s1ap_id:">> \o to_string(value(rec.enb_ue_s1ap_id))
    ELSE <<"unknown_">> \o to_string(unknown)

KeyHasIdentifier(rec) ==
    has_value(rec.imsi) \/ has_value(rec.tmsi) \/ has_value(rec.mme_ue_s1ap_id)
    \/ has_value(rec.enb_ue_s1ap_id)

\* key.find(prefix) == 0
StartsWith(key, prefix) == key # <<>> /\ key[1] = prefix

new_key_better(subscriber_key, existing_key) ==
    \/ (StartsWith(subscriber_key, "imsi:") /\ ~StartsWith(existing_key, "imsi:"))
    \/ (StartsWith(subscriber_key, "tmsi:") /\ ~StartsWith(existing_key, "imsi:")
          /\ ~StartsWith(existing_key, "tmsi:"))
    \/ (StartsWith(subscriber_key, "mme_ue_s1ap_id:") /\ StartsWith(existing_key, "unknown_"))
    \/ (StartsWith(subscriber_key, "enb_ue_s1ap_id:") /\ StartsWith(existing_key, "unknown_"))

\* Correlator::update_context_from_subscriber: the context and the store afterwards
update_context_from_subscriber(st, context, subscriber, m) ==
    LET rec == st.subscriber_records[subscriber]
        c1 == [imsi |-> IF has_value(rec.imsi) THEN rec.imsi ELSE context.imsi,
               tmsi |-> IF has_value(rec.tmsi) THEN rec.tmsi ELSE context.tmsi,
               mme_ue_s1ap_id |-> IF has_value(rec.mme_ue_s1ap_id) THEN rec.mme_ue_s1ap_id
                                  ELSE context.mme_ue_s1ap_id,
               enb_ue_s1ap_id |-> IF has_value(rec.enb_ue_s1ap_id) THEN rec.enb_ue_s1ap_id
                                  ELSE context.enb_ue_s1ap_id,
               imei |-> IF has_value(rec.imeisv) THEN rec.imeisv ELSE context.imei,
               last_seen |-> now,
               handover_in_progress |-> context.handover_in_progress]
        release == m.msg_type = UEContextReleaseComplete
        s1 == RemoveIf("mme_ue_s1ap_id", release, st, c1.mme_ue_s1ap_id)
        s2 == RemoveIf("enb_ue_s1ap_id", release, s1, c1.enb_ue_s1ap_id)
        c2 == IF release THEN [c1 EXCEPT !.mme_ue_s1ap_id = {}, !.enb_ue_s1ap_id = {}] ELSE c1
    IN [st |-> s2, context |-> c2]

\* what a call of get_or_create_context leaves and returns: the store, contexts_,
\* next_unknown_id_, the subscriber key returned (<<>>: the empty string) and the
\* id of the subscriber record the message was resolved to (0: none)
Resolved(st, ctxs, unknown, key, subscriber) ==
    [st |-> st, contexts |-> ctxs, next_unknown_id |-> unknown, key |-> key,
     subscriber |-> subscriber]

\* get_or_create_context, end: the context of the message is updated from the
\* record (u) and stored under the key that is kept
StoreContext(u, ctxs, unknown1, subscriber_key, subscriber, existing) ==
    IF has_value(existing)
         /\ ~(subscriber_key # value(existing)
                /\ new_key_better(subscriber_key, value(existing)))
    THEN Resolved(u.st, Put(ctxs, value(existing), u.context), unknown1, value(existing),
                  subscriber)
    ELSE Resolved(u.st,
                  Put(IF has_value(existing) THEN Erase(ctxs, value(existing)) ELSE ctxs,
                      subscriber_key, u.context),
                  unknown1, subscriber_key, subscriber)

\* UEContext::update: identifiers and last_seen from the message, then the
\* handover state
UEContextUpdate(context, m) ==
    [context EXCEPT
        !.mme_ue_s1ap_id = IF m.mme_ue_s1ap_id # 0 THEN {m.mme_ue_s1ap_id} ELSE @,
        !.enb_ue_s1ap_id = IF m.enb_ue_s1ap_id # 0 THEN {m.enb_ue_s1ap_id} ELSE @,
        !.imsi = IF m.imsi # <<>> THEN {m.imsi} ELSE @,
        !.tmsi = IF m.tmsi # <<>> THEN {m.tmsi} ELSE @,
        !.imei = IF m.imei # <<>> THEN {m.imei} ELSE @,
        !.last_seen = now,
        !.handover_in_progress =
            IF m.msg_type \in {"HandoverRequired", "HandoverCommand"} THEN TRUE
            ELSE IF m.msg_type = "HandoverNotify" THEN FALSE
            ELSE @]

\* get_or_create_context without a subscriber record: nothing for a release,
\* otherwise a context with minimal information under a new unknown_ key
WithoutSubscriber(st, ctxs, unknown, m) ==
    IF m.msg_type = UEContextReleaseComplete
    THEN Resolved(st, ctxs, unknown, <<>>, 0)
    ELSE Resolved(st, Put(ctxs, <<"unknown_">> \o to_string(unknown),
                          UEContextUpdate(NewContext, m)),
                  unknown + 1, <<"unknown_">> \o to_string(unknown), 0)

\* get_or_create_context once the subscriber record is known (found.id; 0: none)
WithSubscriber(found, ctxs, unknown, m, existing) ==
    LET rec == found.st.subscriber_records[found.id]
        unknown1 == IF KeyHasIdentifier(rec) THEN unknown ELSE unknown + 1
        context == IF has_value(existing) THEN ctxs[value(existing)] ELSE NewContext
    IN IF found.id = 0
       THEN WithoutSubscriber(found.st, ctxs, unknown, m)
       ELSE IF ~has_value(existing) /\ m.msg_type = UEContextReleaseComplete
       THEN Resolved(found.st, ctxs, unknown1, <<>>, found.id)
       ELSE StoreContext(update_context_from_subscriber(found.st, context, found.id, m),
                         ctxs, unknown1, KeyOf(rec, unknown), found.id, existing)

\* get_or_create_context: the subscriber record of the message, r being the
\* result of processS1apFrame and ids the merged identifiers
FindOrCreate(r, ids, m) ==
    IF r.id # 0 THEN r
    ELSE IF m.msg_type = UEContextReleaseComplete
    THEN [st |-> r.st, id |-> LookupForRelease(r.st, ids)]
    ELSE getOrCreateSubscriber(r.st, ids.imsi, ids.tmsi, ids.enb_ue_s1ap_id,
                               ids.mme_ue_s1ap_id, {}, ids.imei)

\* get_or_create_context after the call of processS1apFrame that returned r
AfterProcess(r, ctxs, unknown, m, existing) ==
    LET ids == IF has_value(existing) THEN MergeIds(MessageIds(m), ctxs[value(existing)])
               ELSE MessageIds(m)
        has_any_identifier ==
            has_value(ids.imsi) \/ has_value(ids.tmsi) \/ has_value(ids.mme_ue_s1ap_id)
            \/ has_value(ids.enb_ue_s1ap_id) \/ has_value(ids.imei)
    IN IF ~has_any_identifier
       THEN Resolved(r.st, ctxs, unknown, <<>>, r.id)
       ELSE WithSubscriber(FindOrCreate(r, ids, m), ctxs, unknown, m, existing)

\* Correlator::get_or_create_context.  pdu_type: the value found in the field
\* of the S1apParseResult that is never assigned; existing: the key of the
\* context the loop over contexts_ stopped at, {} when none matches.
get_or_create_context(st, ctxs, unknown, m, pdu_type, existing) ==
    AfterProcess(processS1apFrame(st, FrameOf(m, pdu_type)), ctxs, unknown, m, existing)

\* the choices left open when a message is handed to get_or_create_context
PduTypes == {INITIATING_MESSAGE, SUCCESSFUL_OUTCOME}
ExistingChoices(ctxs, m) ==
    IF MatchingKeys(ctxs, m) = {} THEN {{}} ELSE {{k} : k \in MatchingKeys(ctxs, m)}

\* the record a subscriber id stands for before a call (an empty record when
\* the call creates it)
RecordOf(st, id) ==
    IF id \in DOMAIN st.subscriber_records THEN st.subscriber_records[id] ELSE NewRecord

\* UEContext::is_expired at time t: the clock of the correlator counts ticks of
\* ContextTickMs milliseconds, max_inactivity is in seconds
ContextTickMs == 750
context_expiry == 1

is_expired_Exact(context, t, max_inactivity) ==
    (t - context.last_seen) * ContextTickMs > max_inactivity * 1000

is_expired(context, t, max_inactivity) ==
    ((t - context.last_seen) * ContextTickMs) \div 1000 > max_inactivity

\* Correlator::cleanup_expired at time t
cleanup_expired(ctxs, t) ==
    [k \in {x \in DOMAIN ctxs : ~is_expired(ctxs[x], t, context_expiry)} |-> ctxs[k]]

NoCleanup == [made |-> FALSE, before |-> <<>>]

(***************************************************************************)
(* RuleEngine.  The clock counts ticks of TickMs milliseconds.             *)
(***************************************************************************)
max_sequence_age == 60

\* std::chrono::duration_cast<milliseconds>(now - first_seen)
ElapsedMs(t, first_seen) == (t - first_seen) * TickMs
\* std::chrono::duration_cast<seconds>(now - first_seen)
ElapsedSeconds(t, first_seen) == ElapsedMs(t, first_seen) \div 1000

SpoolOffset(m) == [partition |-> m.spool_partition, offset |-> m.spool_offset]

\* RuleEngine::create_event
create_event(name, m, ruleset_id, subscriber_key) ==
    [name |-> name, subscriber_key |-> subscriber_key, msg_type |-> m.msg_type,
     evidence |-> <<SpoolOffset(m)>>, ruleset_id |-> ruleset_id]

\* RuleEngine::check_single_message_rules
RECURSIVE check_single_message_rules(_, _, _, _, _)
check_single_message_rules(m, ruleset, subscriber_key, i, events) ==
    IF i > Len(ruleset.single_message_rules) THEN events
    ELSE LET rule == ruleset.single_message_rules[i]
         IN check_single_message_rules(m, ruleset, subscriber_key, i + 1,
                IF m.msg_type = rule.msg_type_pattern
                THEN Append(events, create_event(rule.event_name, m, ruleset.id, subscriber_key))
                ELSE events)

\* RuleEngine::cleanup_expired_sequences at time t
cleanup_expired_sequences(states, t) ==
    LET keep(state) == ~(ElapsedSeconds(t, state.first_seen) > max_sequence_age)
        kept == [k \in DOMAIN states |-> SelectSeq(states[k], keep)]
    IN [k \in {x \in DOMAIN kept : kept[x] # <<>>} |-> kept[k]]

\* the scan of one subscriber's sequence states for a rule's second message:
\* the states left and the events emitted
RECURSIVE ScanSequences(_, _, _, _, _, _, _, _)
ScanSequences(sequences, j, rule, m, ruleset, subscriber_key, t, acc) ==
    IF j > Len(sequences) THEN acc
    ELSE LET state == sequences[j]
             hit == /\ state.first_msg_type = rule.first_msg_type
                    /\ ElapsedMs(t, state.first_seen) <= rule.time_window
             event == [create_event(rule.event_name, m, ruleset.id, subscriber_key) EXCEPT
                          !.evidence = @ \o <<SpoolOffset(state.first_message), SpoolOffset(m)>>]
         IN ScanSequences(sequences, j + 1, rule, m, ruleset, subscriber_key, t,
                IF hit THEN [acc EXCEPT !.events = Append(@, event)]
                ELSE [acc EXCEPT !.sequences = Append(@, state)])

\* the loop of check_sequence_rules over the ruleset's sequence rules
RECURSIVE SequenceRulesLoop(_, _, _, _, _, _)
SequenceRulesLoop(m, ruleset, subscriber_key, t, i, acc) ==
    IF i > Len(ruleset.sequence_rules) THEN acc
    ELSE LET rule == ruleset.sequence_rules[i]
             state == [subscriber_key |-> subscriber_key,
                       first_msg_type |-> rule.first_msg_type,
                       first_message |-> m, first_seen |-> t, ruleset_id |-> ruleset.id]
             scan == ScanSequences(acc.sequences, 1, rule, m, ruleset, subscriber_key, t,
                                   [sequences |-> <<>>, events |-> <<>>])
         IN SequenceRulesLoop(m, ruleset, subscriber_key, t, i + 1,
                IF m.msg_type = rule.first_msg_type
                THEN [acc EXCEPT !.sequences = Append(@, state)]
                ELSE IF m.msg_type = rule.second_msg_type
                THEN [sequences |-> scan.sequences, events |-> acc.events \o scan.events]
                ELSE acc)

\* RuleEngine::check_sequence_rules: sequence_states_ afterwards and the events
check_sequence_rules(m, ruleset, subscriber_key, states, t) ==
    LET cleaned == cleanup_expired_sequences(states, t)
        start == [sequences |-> IF subscriber_key \in DOMAIN cleaned
                                THEN cleaned[subscriber_key] ELSE <<>>,
                  events |-> <<>>]
        done == SequenceRulesLoop(m, ruleset, subscriber_key, t, 1, start)
    IN [states |-> Put(cleaned, subscriber_key, done.sequences), events |-> done.events]

\* the loop of RuleEngine::process over rulesets_
RECURSIVE RulesetsLoop(_, _, _, _, _, _)
RulesetsLoop(m, sets, subscriber_key, t, i, acc) ==
    IF i > Len(sets) THEN acc
    ELSE LET single == check_single_message_rules(m, sets[i], subscriber_key, 1, <<>>)
             seq == check_sequence_rules(m, sets[i], subscriber_key, acc.states, t)
         IN RulesetsLoop(m, sets, subscriber_key, t, i + 1,
                [states |-> seq.states, events |-> acc.events \o single \o seq.events])

(***************************************************************************)
(* WALLog operations                                                       *)
(***************************************************************************)
\* WALLog::append on a partition whose active segment needs no rotation.
\* ack: the call is made by GrpcIngestAdapter::Ingest, which then sends the ack.
AppendOp(h, spill, ack) ==
    LET m == [id |-> nextMsg, hash |-> h]
        p == partition_for_message(m)
        fresh == active_segments[p] = NoSeg
        seg0 == IF fresh THEN NewSegment(files[p]) ELSE active_segments[p]
        dir0 == IF fresh THEN open_segment_files(files[p], seg0.base_offset) ELSE files[p]
        f0 == dir0[seg0.base_offset]
        offset == seg0.current_offset
        position == seg0.file_size
        rec == [partition |-> p, offset |-> offset, msg |-> m]
        ent == [offset |-> offset, position |-> position]
        \* log: buffered write or direct write
        lbuf == IF wal_cfg.use_buffering THEN Append(seg0.log_buffer, rec) ELSE seg0.log_buffer
        lfull == Len(lbuf) * RecordBytes >= BUFFER_SIZE
        lw == IF wal_cfg.use_buffering
              THEN IF lfull THEN OfWrite(seg0.log_stream, f0.log, lbuf, spill)
                   ELSE [stream |-> seg0.log_stream, file |-> f0.log]
              ELSE OfWrite(seg0.log_stream, f0.log, <<rec>>, spill)
        \* index: buffered write or direct write
        ibuf == IF wal_cfg.use_buffering THEN Append(seg0.idx_buffer, ent) ELSE seg0.idx_buffer
        ifull == Len(ibuf) * INDEX_ENTRY_SIZE >= BUFFER_SIZE
        iw == IF wal_cfg.use_buffering
              THEN IF ifull THEN OfWrite(seg0.idx_stream, f0.idx, ibuf, spill)
                   ELSE [stream |-> seg0.idx_stream, file |-> f0.idx]
              ELSE OfWrite(seg0.idx_stream, f0.idx, <<ent>>, spill)
        seg1 == [seg0 EXCEPT !.current_offset = offset + 1,
                             !.file_size = position + RecordBytes,
                             !.log_buffer = IF wal_cfg.use_buffering /\ lfull THEN <<>> ELSE lbuf,
                             !.log_stream = lw.stream,
                             !.idx_buffer = IF wal_cfg.use_buffering /\ ifull THEN <<>> ELSE ibuf,
                             !.idx_stream = iw.stream]
        f1 == [log |-> lw.file, idx |-> iw.file]
        should_fsync == wal_cfg.fsync_on_append /\ (now - seg1.last_fsync) >= fsync_interval
        fl == IF should_fsync THEN flush_segment_buffers(seg1, f1)
              ELSE [seg |-> seg1, file |-> f1]
        seg2 == IF should_fsync THEN [fl.seg EXCEPT !.last_fsync = now] ELSE fl.seg
    IN /\ alive
       /\ nextMsg <= MaxAppends
       /\ ~(~fresh /\ active_segments[p].file_size >= max_segment_size)
       /\ active_segments' = [active_segments EXCEPT ![p] = seg2]
       /\ files' = [files EXCEPT ![p] = [dir0 EXCEPT ![seg0.base_offset] = fl.file]]
       /\ nextMsg' = nextMsg + 1
       /\ appendHist' = Append(appendHist, [msg |-> m, partition |-> p, offset |-> offset])
       /\ acks' = IF ack THEN acks \cup {[msg |-> m, partition |-> p, offset |-> offset]}
                  ELSE acks

\* GrpcIngestAdapter::Ingest for one message: append_to_spool, then the ack
Ingest ==
    \E h \in Partitions, spill \in BOOLEAN :
        /\ AppendOp(h, spill, TRUE)
        /\ UNCHANGED <<wal_cfg, segment_cache, cache_timestamp, alive, instance,
                       now>>
    /\ lastRead' = NoRead
    /\ UNCHANGED <<offVars, nonWalVars>>

\* WALLog::append called directly (Spool::append)
SpoolAppend ==
    \E h \in Partitions, spill \in BOOLEAN :
        /\ AppendOp(h, spill, FALSE)
        /\ UNCHANGED <<wal_cfg, segment_cache, cache_timestamp, alive, instance,
                       now>>
    /\ lastRead' = Appended
    /\ UNCHANGED <<offVars, nonWalVars>>

\* WALLog::append that ends with an exception: open_segment_files throws for
\* the log or for the index file while the segment is created, or
\* SerializeToString fails after the offset was taken
AppendFails ==
    \E h \in Partitions, stage \in {"open_log", "open_idx", "serialize"} :
        LET m == [id |-> nextMsg, hash |-> h]
            p == partition_for_message(m)
            fresh == active_segments[p] = NoSeg
            seg0 == IF fresh THEN NewSegment(files[p]) ELSE active_segments[p]
            dir0 == IF fresh THEN open_segment_files(files[p], seg0.base_offset) ELSE files[p]
        IN /\ alive
           /\ nextMsg <= MaxAppends
           /\ ~(~fresh /\ active_segments[p].file_size >= max_segment_size)
           /\ stage # "serialize" => fresh
           /\ nextMsg - 1 - Len(appendHist) < MaxFailures
           /\ active_segments' =
                 IF stage = "serialize"
                 THEN [active_segments EXCEPT
                          ![p] = [seg0 EXCEPT !.current_offset = seg0.current_offset + 1]]
                 ELSE active_segments
           /\ files' = IF stage = "open_log" THEN files ELSE [files EXCEPT ![p] = dir0]
           /\ nextMsg' = nextMsg + 1
           /\ UNCHANGED <<wal_cfg, segment_cache, cache_timestamp, alive, instance,
                          appendHist, acks, now>>
           /\ lastRead' = NoRead
           /\ UNCHANGED <<offVars, nonWalVars>>

\* WALLog::append on a partition whose active segment is full: rotate_segment
\* erases the partition from active_segments_, and get_or_create_segment then
\* dereferences the end iterator.  The process terminates, or the call goes on
\* with a garbage SegmentInfo and returns whatever offset it finds there.
AppendRotate ==
    \E h \in Partitions, crash \in BOOLEAN, g \in 0..MaxAppends :
        LET m == [id |-> nextMsg, hash |-> h]
            p == partition_for_message(m)
            seg == active_segments[p]
            rotated == [files EXCEPT ![p][seg.base_offset] = close_segment_files(seg, @)]
        IN /\ alive
           /\ nextMsg <= MaxAppends
           /\ seg # NoSeg
           /\ seg.file_size >= max_segment_size
           /\ files' = rotated
           /\ segment_cache' = [segment_cache EXCEPT ![p] = NoCache]
           /\ nextMsg' = nextMsg + 1
           /\ IF crash
              THEN /\ alive' = FALSE
                   /\ active_segments' = [q \in Partitions |-> NoSeg]
                   /\ appendHist' = appendHist
              ELSE /\ alive' = alive
                   /\ active_segments' = [active_segments EXCEPT ![p] = NoSeg]
                   /\ appendHist' = Append(appendHist, [msg |-> m, partition |-> p,
                                                        offset |-> g])
           /\ UNCHANGED <<wal_cfg, cache_timestamp, instance, acks, now>>
           /\ lastRead' = NoRead
    /\ UNCHANGED <<offVars, nonWalVars>>

\* WALLog::read(p, offset, max_records)
ReadOp(p, offset, max_records) ==
    LET gs == get_segments_for_partition(p)
    IN /\ alive
       /\ segment_cache' = gs.cache
       /\ cache_timestamp' = gs.stamp
       /\ lastRead' = [partition |-> p, offset |-> offset, max_records |-> max_records,
                       records |-> WalRead(p, offset, max_records),
                       at |-> Len(appendHist), instance |-> instance,
                       after_append |-> lastRead = Appended]
       /\ UNCHANGED <<wal_cfg, files, active_segments, alive, instance, nextMsg,
                      appendHist, acks, now>>

\* a read of everything a partition holds from a given offset
Read ==
    \E p \in Partitions, offset \in 0..MaxReadOffset :
        /\ ReadOp(p, offset, MaxAppends)
        /\ UNCHANGED <<offVars, nonWalVars>>

\* a read of one record
ReadOne ==
    \E p \in Partitions, offset \in 0..MaxReadOffset :
        /\ ReadOp(p, offset, 1)
        /\ UNCHANGED <<offVars, nonWalVars>>

\* WALLog::flush_all_segments (Spool::flush)
Flush ==
    /\ alive
    /\ \E p \in Partitions : active_segments[p] # NoSeg
    /\ active_segments' = [p \in Partitions |->
          IF active_segments[p] = NoSeg THEN NoSeg
          ELSE flush_segment_buffers(active_segments[p],
                                     files[p][active_segments[p].base_offset]).seg]
    /\ files' = [p \in Partitions |->
          IF active_segments[p] = NoSeg THEN files[p]
          ELSE [files[p] EXCEPT ![active_segments[p].base_offset] =
                   flush_segment_buffers(active_segments[p], @).file]]
    /\ UNCHANGED <<wal_cfg, segment_cache, cache_timestamp, alive, instance, nextMsg,
                   appendHist, acks, now>>
    /\ lastRead' = NoRead
    /\ UNCHANGED <<offVars, nonWalVars>>

\* WALLog::~WALLog: flush and close every open segment
Close ==
    /\ alive
    /\ files' = CloseAll
    /\ active_segments' = [p \in Partitions |-> NoSeg]
    /\ alive' = FALSE
    /\ UNCHANGED <<wal_cfg, segment_cache, cache_timestamp, instance, nextMsg,
                   appendHist, acks, now>>
    /\ lastRead' = NoRead
    /\ consumer_offsets' = <<>>
    /\ UNCHANGED <<offset_files, committed, lastLoad, nonWalVars>>

\* the process stops without running the destructor: what the streams and the
\* buffers hold is lost
Crash ==
    /\ alive
    /\ active_segments' = [p \in Partitions |-> NoSeg]
    /\ alive' = FALSE
    /\ UNCHANGED <<wal_cfg, files, segment_cache, cache_timestamp, instance, nextMsg,
                   appendHist, acks, now>>
    /\ lastRead' = NoRead
    /\ consumer_offsets' = <<>>
    /\ UNCHANGED <<offset_files, committed, lastLoad, nonWalVars>>

\* WALLog::WALLog on the same base directory
Open ==
    /\ ~alive
    /\ instance <= MaxRestarts
    /\ ~LoadThrows(offset_files)
    /\ alive' = TRUE
    /\ instance' = instance + 1
    /\ segment_cache' = [p \in Partitions |-> NoCache]
    /\ cache_timestamp' = now
    /\ UNCHANGED <<wal_cfg, files, active_segments, nextMsg, appendHist, acks,
                   now>>
    /\ lastRead' = NoRead
    /\ consumer_offsets' \in load_consumer_offsets(offset_files)
    /\ UNCHANGED <<offset_files, committed, lastLoad, nonWalVars>>

\* WALLog::commit_offset and save_consumer_offset
CommitOffset ==
    \E group \in Groups, partition \in Partitions, offset \in CommitOffsets :
        /\ alive
        /\ consumer_offsets' = MapPut(consumer_offsets, <<group, partition>>, offset)
        /\ offset_files' = MapPut(offset_files, offset_file_path(group, partition), offset)
        /\ committed' = MapPut(committed, <<group, partition>>, offset)
        /\ lastLoad' = NoLoad
        /\ UNCHANGED <<walVars, now, lastRead, nonWalVars>>

\* WALLog::load_offset
LoadOffset ==
    \E group \in Groups, partition \in Partitions :
        /\ alive
        /\ lastLoad' = [group |-> group, partition |-> partition,
                        value |-> load_offset(consumer_offsets, group, partition),
                        made |-> TRUE]
        /\ UNCHANGED <<walVars, now, lastRead, consumer_offsets, offset_files, committed,
                       nonWalVars>>

Tick ==
    /\ now < MaxTime
    /\ now' = now + 1
    /\ UNCHANGED walVars
    /\ lastRead' = NoRead
    /\ UNCHANGED <<offVars, nonWalVars>>

Init ==
    /\ wal_cfg \in [use_buffering : BOOLEAN, fsync_on_append : BOOLEAN]
    /\ files = [p \in Partitions |-> <<>>]
    /\ active_segments = [p \in Partitions |-> NoSeg]
    /\ segment_cache = [p \in Partitions |-> NoCache]
    /\ cache_timestamp = 0
    /\ now = 0
    /\ alive = TRUE
    /\ instance = 1
    /\ nextMsg = 1
    /\ appendHist = <<>>
    /\ acks = {}
    /\ lastRead = NoRead
    /\ consumer_offsets = <<>>
    /\ offset_files = <<>>
    /\ committed = <<>>
    /\ lastLoad = NoLoad
    /\ store = NewStore
    /\ contexts = <<>>
    /\ next_unknown_id = 1
    /\ lastCleanup = NoCleanup
    /\ rulesets = <<>>
    /\ sequence_states = <<>>
    /\ procHist = <<>>
    /\ batch = NoBatch
    /\ processed = <<>>
    /\ mutex_ = 0
    /\ thread_calls = [t \in Threads |-> NoCall]
    /\ raw_frame = NoFrame
    /\ canonical_message = NoCanonical
    /\ replay = NoReplay

\* the state after the construction of the S1apUeCorrelator, the log left with
\* the default configuration
InitStore ==
    /\ Init
    /\ wal_cfg = [use_buffering |-> TRUE, fsync_on_append |-> FALSE]

NextLog ==
    \/ Ingest
    \/ AppendRotate
    \/ Read
    \/ Flush
    \/ Close
    \/ Crash
    \/ Open
    \/ Tick

SpecLog == Init /\ [][NextLog]_vars

\* the calls a client makes on one WALLog object through Spool
NextSpool ==
    \/ SpoolAppend
    \/ AppendFails
    \/ AppendRotate
    \/ ReadOne
    \/ Flush
    \/ Tick

SpecSpool == Init /\ [][NextSpool]_vars

\* a consumer of the log committing and loading its offsets over restarts
NextOffsets ==
    \/ CommitOffset
    \/ LoadOffset
    \/ Close
    \/ Crash
    \/ Open

SpecOffsets == InitStore /\ [][NextOffsets]_vars

(***************************************************************************)
(* Claims about the write-ahead log                                        *)
(***************************************************************************)
\* the messages of the first n append calls that landed in partition p, in call order
RECURSIVE AppendedTo(_, _)
AppendedTo(p, n) ==
    IF n = 0 THEN <<>>
    ELSE IF appendHist[n].partition = p
         THEN Append(AppendedTo(p, n - 1), appendHist[n].msg)
         ELSE AppendedTo(p, n - 1)

\* C1: within each partition, the offsets returned by consecutive append calls
\* that land in that partition increase by exactly 1: if one append returns
\* (p, o), the next append that lands in p returns (p, o + 1).
C1_OffsetsIncreaseByOne ==
    \A i, j \in 1..Len(appendHist) :
        ( /\ i < j
          /\ appendHist[i].partition = appendHist[j].partition
          /\ \A k \in (i + 1)..(j - 1) : appendHist[k].partition # appendHist[i].partition )
        => appendHist[j].offset = appendHist[i].offset + 1

\* C2: after N messages were appended to a fresh log, reading a partition from
\* offset 0 with max_records at least N returns exactly the messages appended
\* to that partition, in their append order.
C2_ReadReturnsAppended ==
    ( /\ lastRead.instance = 1
      /\ lastRead.offset = 0
      /\ lastRead.max_records >= lastRead.at )
    => [i \in 1..Len(lastRead.records) |-> lastRead.records[i].msg]
           = AppendedTo(lastRead.partition, lastRead.at)

\* C3: whenever an acknowledgement with success = true has been sent for a
\* message, the message's record is in the segment file of its partition on
\* disk, not merely in an in-memory buffer.
C3_AckedIsOnDisk ==
    \A a \in acks :
        \E base \in DOMAIN files[a.partition] :
            \E k \in 1..Len(files[a.partition][base].log) :
                /\ files[a.partition][base].log[k].msg = a.msg
                /\ files[a.partition][base].log[k].offset = a.offset

\* C11: read-your-writes: when append has returned (p, o), a read(p, o, 1)
\* issued as the very next call on the same log returns exactly one record,
\* with partition p, offset o and the appended message.
C11_ReadYourWrites ==
    (/\ lastRead.after_append
     /\ lastRead.at >= 1
     /\ lastRead.max_records = 1
     /\ lastRead.partition = appendHist[lastRead.at].partition
     /\ lastRead.offset = appendHist[lastRead.at].offset)
    => lastRead.records = <<[partition |-> lastRead.partition, offset |-> lastRead.offset,
                             msg |-> appendHist[lastRead.at].msg]>>

\* the offset the next append to partition p would take
CurrentOffset(segs, dirs, p) ==
    IF segs[p] = NoSeg THEN NewSegment(dirs[p]).current_offset ELSE segs[p].current_offset

\* C12: an append call that fails (no offset is returned, the process goes
\* on) leaves the current_offset of every partition unchanged.
C12_FailedAppendKeepsOffset ==
    [][(nextMsg' = nextMsg + 1 /\ appendHist' = appendHist /\ alive')
          => \A p \in Partitions :
                CurrentOffset(active_segments', files', p)
                    = CurrentOffset(active_segments, files, p)]_vars

\* what commit_offset has last been given for <<group, partition>>, 0 when it
\* was never called for that pair
LastCommitted(group, partition) ==
    IF <<group, partition>> \in DOMAIN committed THEN committed[<<group, partition>>] ELSE 0

\* C13: load_offset(group, P) returns the offset of the most recent
\* commit_offset(group, P, O) that has returned, or 0 if no commit was ever made
\* for that exact (group, partition) pair; commits for another group or another
\* partition never change the value returned for (group, P).
C13_LoadReturnsLastCommit ==
    lastLoad.made => lastLoad.value = LastCommitted(lastLoad.group, lastLoad.partition)

\* C25: within a partition no two records are ever assigned the same offset,
\* also when appends rotate the active segment at max_segment_size and when the
\* log is closed, opened again on the same base directory and appended to.
C25_OffsetsAreUnique ==
    \A i, j \in 1..Len(appendHist) :
        (i < j /\ appendHist[i].partition = appendHist[j].partition)
            => appendHist[i].offset # appendHist[j].offset

(***************************************************************************)
(* Calls of the subscriber store's public operations                       *)
(***************************************************************************)
Opt(S) == {{}} \cup {{v} : v \in S}
Vec(S) == {<<>>} \cup {<<v>> : v \in S}

\* identifier values used as inputs
Imsis == {<<"1">>}
Tmsis == {<<"a">>}
RawTmsis == {<<"A">>}
Imeisvs == {<<"3">>}
MmeIds == {1}
EnbIds == {1}
Teids == {1}

\* what the extractors of s1ap_parser find in a frame
Frames ==
    [procedure_code : {id_initialUEMessage, id_UEContextRelease},
     pdu_type : {INITIATING_MESSAGE, SUCCESSFUL_OUTCOME},
     imsis : Vec(Imsis), tmsis : Vec(RawTmsis), imeisvs : {<<>>},
     mme_ue_s1ap_id : Opt(MmeIds), enb_ue_s1ap_id : Opt(EnbIds), teids : {{}}]

Kinds == {"imsi", "tmsi", "imeisv", "mme_ue_s1ap_id", "enb_ue_s1ap_id", "teid"}

ValuesOf(kind) ==
    CASE kind = "imsi" -> Imsis
      [] kind = "tmsi" -> Tmsis
      [] kind = "imeisv" -> Imeisvs
      [] kind = "mme_ue_s1ap_id" -> MmeIds
      [] kind = "enb_ue_s1ap_id" -> EnbIds
      [] kind = "teid" -> Teids

\* the index of an identifier kind
IndexOf(st, kind) ==
    CASE kind = "imsi" -> st.imsi_to_subscriber_id
      [] kind = "tmsi" -> st.tmsi_to_subscriber_id
      [] kind = "imeisv" -> st.imeisv_to_subscriber_id
      [] kind = "mme_ue_s1ap_id" -> st.mme_ue_s1ap_id_to_subscriber_id
      [] kind = "enb_ue_s1ap_id" -> st.enb_ue_s1ap_id_to_subscriber_id
      [] kind = "teid" -> st.teid_to_subscriber_id

\* the values of an identifier kind a record holds
Holds(rec, kind) ==
    CASE kind = "imsi" -> rec.imsi
      [] kind = "tmsi" -> rec.tmsi
      [] kind = "imeisv" -> rec.imeisv
      [] kind = "mme_ue_s1ap_id" -> rec.mme_ue_s1ap_id
      [] kind = "enb_ue_s1ap_id" -> rec.enb_ue_s1ap_id
      [] kind = "teid" -> rec.teids

\* a call of processS1apFrame
StoreProcessFrame ==
    \E f \in Frames :
        LET r == processS1apFrame(store, f)
        IN /\ r.st.next_subscriber_id <= MaxSubscribers + 1
           /\ store' = r.st
           /\ UNCHANGED nonStoreVars

\* a call of getOrCreateSubscriber
StoreGetOrCreate ==
    \E imsi \in Opt(Imsis), tmsi \in Opt(Tmsis), enb \in Opt(EnbIds),
       mme \in Opt(MmeIds), teid \in Opt(Teids), imeisv \in Opt(Imeisvs) :
        LET r == getOrCreateSubscriber(store, imsi, tmsi, enb, mme, teid, imeisv)
        IN /\ r.st.next_subscriber_id <= MaxSubscribers + 1
           /\ store' = r.st
           /\ UNCHANGED nonStoreVars

\* a call of one of the associate operations on an existing record
StoreAssociate ==
    \E kind \in Kinds, id \in DOMAIN store.subscriber_records :
        \E v \in ValuesOf(kind) :
            /\ store' = associate(store, kind, id, v)
            /\ UNCHANGED nonStoreVars

\* a call of one of the remove...Association operations
StoreRemove ==
    \E kind \in Kinds :
        \E v \in ValuesOf(kind) :
            /\ store' = removeAssociation(store, kind, v)
             /\ UNCHANGED nonStoreVars

NextStore ==
    \/ StoreProcessFrame
    \/ StoreGetOrCreate
    \/ StoreAssociate
    \/ StoreRemove

SpecStore == InitStore /\ [][NextStore]_vars

(***************************************************************************)
(* Claims about the subscriber store                                       *)
(***************************************************************************)
\* C4: after every subscriber-store operation, for every record R and every
\* identifier kind among IMSI, TMSI, IMEISV, MME-UE-S1AP-ID and eNB-UE-S1AP-ID:
\* if R's field of that kind holds value X, the index of that kind maps X to R.
C4_FieldsAreIndexed ==
    \A id \in DOMAIN store.subscriber_records :
        \A kind \in Kinds \ {"teid"} :
            \A x \in Holds(store.subscriber_records[id], kind) :
                Find(IndexOf(store, kind), x) = id

\* C5: for each association operation: when it gives a value that is indexed
\* to a record R1 to a different record R2, afterwards R1 no longer holds the
\* value, the index maps the value to R2, and the number of records is unchanged.
C5_ConflictReassigns ==
    [][\A kind \in Kinds, R2 \in DOMAIN store.subscriber_records :
         \A v \in ValuesOf(kind) :
             LET R1 == Find(IndexOf(store, kind), v)
             IN (R1 \notin {0, R2} /\ R1 \in DOMAIN store.subscriber_records
                   /\ store' = associate(store, kind, R2, v))
                => /\ v \notin Holds(store'.subscriber_records[R1], kind)
                   /\ Find(IndexOf(store', kind), v) = R2
                   /\ Cardinality(DOMAIN store'.subscriber_records)
                        = Cardinality(DOMAIN store.subscriber_records)]_vars

(***************************************************************************)
(* Messages handed to the correlator and to the rule engine                *)
(***************************************************************************)
ImsiX == <<"0", "0", "1", "0", "1", "0", "1", "2", "3", "4", "5", "6", "7", "8", "9">>
MmeY == 77
EnbZ == 5

\* the procedure code the decoder stores with a message type
ProcedureCodeOf(msg_type) ==
    CASE msg_type = "InitialUEMessage" -> id_initialUEMessage
      [] msg_type = UEContextReleaseComplete -> id_UEContextRelease
      [] msg_type = "HandoverRequired" -> 0
      [] msg_type = "HandoverNotify" -> 2

\* a CanonicalMessage: imsi, tmsi, imei, mme_ue_s1ap_id and enb_ue_s1ap_id are
\* the message's own fields (empty string and 0: not set); nas_imsi is the IMSI
\* carried in the NAS-PDU of decoded_tree
CanonicalMessage(msg_type, imsi, nas_imsi, mme, enb) ==
    [msg_type |-> msg_type, procedure_code |-> ProcedureCodeOf(msg_type),
     imsi |-> imsi, tmsi |-> <<>>, imei |-> <<>>,
     mme_ue_s1ap_id |-> mme, enb_ue_s1ap_id |-> enb, nas_imsi |-> nas_imsi,
     spool_partition |-> 0, spool_offset |-> 0]

\* the messages handed to the correlator: an InitialUEMessage carries the IMSI
\* in its field, in its NAS-PDU or not at all; a release carries S1AP ids only
S1apIdPairs == {<<0, 0>>, <<MmeY, 0>>, <<0, EnbZ>>, <<MmeY, EnbZ>>}

CorrMessages ==
    {CanonicalMessage("InitialUEMessage", c[1], c[2], ids[1], ids[2]) :
        c \in {<<<<>>, <<>>>>, <<ImsiX, <<>>>>, <<<<>>, <<ImsiX>>>>}, ids \in S1apIdPairs}
    \cup {CanonicalMessage(UEContextReleaseComplete, <<>>, <<>>, ids[1], ids[2]) :
              ids \in S1apIdPairs \ {<<0, 0>>}}

RuleMessages ==
    {CanonicalMessage(t, <<>>, nas, mme, 0) :
        t \in {"HandoverRequired", "HandoverNotify"},
        nas \in Vec({ImsiX}), mme \in {MmeY}}

\* rulesets offered to load_ruleset; time windows in milliseconds
SequenceRule(event_name, first, second, window) ==
    [event_name |-> event_name, first_msg_type |-> first, second_msg_type |-> second,
     time_window |-> window]

Rulesets ==
    {[id |-> "mobility",
      single_message_rules |->
          <<[event_name |-> "Handover.Started", msg_type_pattern |-> "HandoverRequired"]>>,
      sequence_rules |->
          <<SequenceRule("Handover.Completed", "HandoverRequired", "HandoverNotify", TickMs)>>],
     [id |-> "slow",
      single_message_rules |->
          <<[event_name |-> "Handover.Finished", msg_type_pattern |-> "HandoverNotify"]>>,
      sequence_rules |->
          <<SequenceRule("Handover.Completed", "HandoverRequired", "HandoverNotify",
                         3 * TickMs)>>],
     [id |-> "both",
      single_message_rules |-> <<>>,
      sequence_rules |->
          <<SequenceRule("Handover.Completed", "HandoverRequired", "HandoverNotify", TickMs),
            SequenceRule("Handover.Cancelled", "HandoverRequired", "HandoverCancel", TickMs)>>]}

\* the entry of procHist for a processed message
Processed(m, g, events, before, calls, existing, thrown) ==
    [msg |-> m, key |-> g.key, subscriber |-> g.subscriber, at |-> now, events |-> events,
     before |-> before, rulesets |-> Len(rulesets), correlator_calls |-> calls,
     existing_key |-> existing, thrown |-> thrown]

\* the calls of get_or_create_context that create_event makes for an event: it
\* takes the subscriber_key handed down by process
KeyCallsPerEvent == 0

\* process as it would be if create_event asked the correlator for the key again
CorrelatorCalls_PerEvent(events) == 1 + Len(events)

\* the calls of get_or_create_context made by RuleEngine::process for a
\* message: the one before the loop over the rulesets, and those of the events built
CorrelatorCalls(events) == 1 + KeyCallsPerEvent * Len(events)

\* a direct call of Correlator::get_or_create_context
GetOrCreateContext ==
    /\ Len(procHist) < MaxMessages
    /\ \E m0 \in CorrMessages, pdu_type \in PduTypes :
          LET m == [m0 EXCEPT !.spool_offset = Len(procHist)]
          IN \E existing \in ExistingChoices(contexts, m) :
                LET g == get_or_create_context(store, contexts, next_unknown_id, m,
                                               pdu_type, existing)
                IN /\ store' = g.st
                   /\ contexts' = g.contexts
                   /\ next_unknown_id' = g.next_unknown_id
                   /\ lastCleanup' = NoCleanup
                   /\ procHist' = Append(procHist,
                                         Processed(m, g, <<>>, RecordOf(store, g.subscriber), 1,
                                                   existing, <<>>))
    /\ UNCHANGED <<walVars, offVars, pipeVars, lockVars, decVars, replayVars, now, lastRead, ruleVars>>

\* RuleEngine::load_ruleset; the processor loads its ruleset before it starts
\* to process messages
LoadRuleset ==
    /\ Len(rulesets) < MaxRulesets
    /\ procHist = <<>>
    /\ \E ruleset \in Rulesets : rulesets' = Append(rulesets, ruleset)
    /\ UNCHANGED <<walVars, offVars, pipeVars, lockVars, decVars, replayVars, now, lastRead, storeVars, corrVars, sequence_states, procHist>>

\* RuleEngine::process for a message out of messages
ProcessOf(messages) ==
    /\ Len(procHist) < MaxMessages
    /\ rulesets # <<>>
    /\ \E m0 \in messages, pdu_type \in PduTypes :
          LET m == [m0 EXCEPT !.spool_offset = Len(procHist)]
          IN \E existing \in ExistingChoices(contexts, m) :
                LET g == get_or_create_context(store, contexts, next_unknown_id, m,
                                               pdu_type, existing)
                    done == RulesetsLoop(m, rulesets, g.key, now, 1,
                                         [states |-> sequence_states, events |-> <<>>])
                IN /\ store' = g.st
                   /\ contexts' = g.contexts
                   /\ next_unknown_id' = g.next_unknown_id
                   /\ lastCleanup' = NoCleanup
                   /\ sequence_states' = done.states
                   /\ procHist' = Append(procHist,
                                         Processed(m, g, done.events,
                                                   RecordOf(store, g.subscriber),
                                                   CorrelatorCalls(done.events), existing,
                                                   <<>>))

\* RuleEngine::process for a handover message
Process ==
    /\ ProcessOf(RuleMessages)
    /\ UNCHANGED <<walVars, offVars, pipeVars, lockVars, decVars, replayVars, now, lastRead, rulesets>>

\* an InitialUEMessage of the UE of the handover messages, its IMSI in the NAS-PDU
AttachMessages == {CanonicalMessage("InitialUEMessage", <<>>, <<ImsiX>>, MmeY, 0)}

\* RuleEngine::process for a message that brings the IMSI of the UE
ProcessAttach ==
    /\ ProcessOf(AttachMessages)
    /\ UNCHANGED <<walVars, offVars, pipeVars, lockVars, decVars, replayVars, now, lastRead, rulesets>>

\* RuleEngine::process called by Pipeline::process_batch, an exception leaving
\* check_single_message_rules while single-message rule i of ruleset s is
\* evaluated: the rulesets before s were gone through, process is left without
\* a result, and the handler of process_batch emits nothing for the record
ProcessThrows ==
    /\ Len(procHist) < MaxMessages
    /\ \E m0 \in RuleMessages, pdu_type \in PduTypes, s \in 1..Len(rulesets) :
          \E i \in 1..Len(rulesets[s].single_message_rules) :
              LET m == [m0 EXCEPT !.spool_offset = Len(procHist)]
              IN /\ m.msg_type = rulesets[s].single_message_rules[i].msg_type_pattern
                 /\ \E existing \in ExistingChoices(contexts, m) :
                       LET g == get_or_create_context(store, contexts, next_unknown_id, m,
                                                      pdu_type, existing)
                           done == RulesetsLoop(m, SubSeq(rulesets, 1, s - 1), g.key, now, 1,
                                                [states |-> sequence_states, events |-> <<>>])
                       IN /\ store' = g.st
                          /\ contexts' = g.contexts
                          /\ next_unknown_id' = g.next_unknown_id
                          /\ lastCleanup' = NoCleanup
                          /\ sequence_states' = done.states
                          /\ procHist' = Append(procHist,
                                                Processed(m, g, <<>>,
                                                          RecordOf(store, g.subscriber), 1,
                                                          existing, <<s, i>>))
    /\ UNCHANGED <<walVars, offVars, pipeVars, lockVars, decVars, replayVars, now, lastRead, rulesets>>

\* RuleEngine::cleanup_expired_sequences, called by Pipeline::process_batch
CleanupExpiredSequences ==
    /\ sequence_states' = cleanup_expired_sequences(sequence_states, now)
    /\ UNCHANGED <<walVars, offVars, pipeVars, lockVars, decVars, replayVars, now, lastRead, storeVars, corrVars, rulesets, procHist>>

\* time passes
Advance ==
    /\ now < MaxClock
    /\ now' = now + 1
    /\ lastCleanup' = NoCleanup
    /\ UNCHANGED <<walVars, offVars, pipeVars, lockVars, decVars, replayVars, lastRead, storeVars, contexts, next_unknown_id, ruleVars,
                   procHist>>

\* the messages of two UEs that keep their contexts alive
ExpiryMessages ==
    {CanonicalMessage("InitialUEMessage", <<>>, <<>>, ids[1], ids[2]) :
        ids \in {<<MmeY, 0>>, <<0, EnbZ>>}}

\* Correlator::update_context: get_or_create_context, the key is dropped
UpdateContext ==
    /\ \E m \in ExpiryMessages, pdu_type \in PduTypes :
          \E existing \in ExistingChoices(contexts, m) :
              LET g == get_or_create_context(store, contexts, next_unknown_id, m,
                                             pdu_type, existing)
              IN /\ store' = g.st
                 /\ contexts' = g.contexts
                 /\ next_unknown_id' = g.next_unknown_id
                 /\ lastCleanup' = NoCleanup
    /\ UNCHANGED <<walVars, offVars, pipeVars, lockVars, decVars, replayVars, now, lastRead, ruleVars, procHist>>

\* Correlator::cleanup_expired
CleanupExpired ==
    /\ contexts' = cleanup_expired(contexts, now)
    /\ lastCleanup' = [made |-> TRUE, before |-> contexts]
    /\ UNCHANGED <<walVars, offVars, pipeVars, lockVars, decVars, replayVars, now, lastRead, storeVars, next_unknown_id, ruleVars,
                   procHist>>

NextCorr == GetOrCreateContext

SpecCorr == InitStore /\ [][NextCorr]_vars

NextRules ==
    \/ LoadRuleset
    \/ Process
    \/ CleanupExpiredSequences
    \/ Advance

SpecRules == InitStore /\ [][NextRules]_vars

\* records processed by Pipeline::process_batch, rule evaluations that throw included
NextRuleErrors ==
    \/ LoadRuleset
    \/ Process
    \/ ProcessThrows

SpecRuleErrors == InitStore /\ [][NextRuleErrors]_vars

\* handover messages in which the decoder found no identifier of the UE
AnonymousMessages ==
    {CanonicalMessage(t, <<>>, <<>>, 0, 0) : t \in {"HandoverRequired", "HandoverNotify"}}

\* RuleEngine::process for a message without identifiers
ProcessAnonymous ==
    /\ ProcessOf(AnonymousMessages)
    /\ UNCHANGED <<walVars, offVars, pipeVars, lockVars, decVars, replayVars, now, lastRead, rulesets>>

\* messages with and without identifiers
NextAnonymous ==
    \/ LoadRuleset
    \/ Process
    \/ ProcessAnonymous

SpecAnonymous == InitStore /\ [][NextAnonymous]_vars

\* handover messages of a UE whose IMSI becomes known in between
NextRekey ==
    \/ LoadRuleset
    \/ Process
    \/ ProcessAttach

SpecRekey == InitStore /\ [][NextRekey]_vars

\* contexts kept alive by messages and removed by the periodic cleanup
NextExpiry ==
    \/ UpdateContext
    \/ CleanupExpired
    \/ Advance

SpecExpiry == InitStore /\ [][NextExpiry]_vars

(***************************************************************************)
(* Pipeline: the processing thread going through process_batch.  The       *)
(* Pipeline reads the spool directory through a WALLog of its own, which   *)
(* never appends: its active_segments_ stays empty, and consumer_offsets   *)
(* and segment_cache are its maps.                                         *)
(***************************************************************************)
\* Pipeline::Config::consumer_group and the values given for max_messages
consumer_group == <<"a">>
BatchSizes == {1, MaxAppends}
\* the saturation of the history counter processed
SeenTwice == 2

\* the offsets of the last index entries of the partition's index files
LastIndexOffsets(dir) ==
    {dir[b].idx[Len(dir[b].idx)].offset :
        b \in {x \in DOMAIN dir : Len(dir[x].idx) * INDEX_ENTRY_SIZE >= INDEX_ENTRY_SIZE}}

\* WALLog::get_high_water_mark on an instance with the active segments segs
get_high_water_mark(segs, dirs, p) ==
    IF segs[p] # NoSeg THEN segs[p].current_offset - 1
    ELSE SetMax(LastIndexOffsets(dirs[p]) \cup {0})

\* active_segments_ of the Pipeline's WALLog
PipelineSegments == [p \in Partitions |-> NoSeg]

\* Pipeline::decode_and_normalize: the spooled PDUs are HandoverRequired
\* messages of one UE
decode_and_normalize(record) ==
    [CanonicalMessage("HandoverRequired", <<>>, <<>>, MmeY, 0) EXCEPT
        !.spool_partition = record.partition, !.spool_offset = record.offset]

\* the loop of process_batch moves on to partition p
ToPartition(b, p) ==
    [b EXCEPT !.pc = IF p < NumPartitions THEN "partition" ELSE "cleanup",
              !.partition = p, !.records = <<>>, !.next = 1]

\* Pipeline::process_batch is called
ProcessBatch ==
    /\ alive
    /\ batch.pc = "idle"
    /\ \E max_messages \in BatchSizes :
          batch' = [ToPartition(NoBatch, 0) EXCEPT !.max_messages = max_messages]
    /\ lastCleanup' = NoCleanup
    /\ UNCHANGED <<walVars, offVars, now, lastRead, storeVars, contexts, next_unknown_id,
                   ruleVars, procHist, processed, lockVars, decVars, replayVars>>

\* process_batch, head of the loop over the partitions: load_offset,
\* get_high_water_mark and, unless offset >= high_water, read
LoadAndRead ==
    LET p == batch.partition
        offset == load_offset(consumer_offsets, consumer_group, p)
        high_water == get_high_water_mark(PipelineSegments, files, p)
        gs == get_segments_for_partition(p)
    IN /\ batch.pc = "partition"
       /\ IF offset >= high_water
          THEN /\ batch' = ToPartition(batch, p + 1)
               /\ UNCHANGED <<segment_cache, cache_timestamp>>
          ELSE /\ batch' = [batch EXCEPT !.pc = "records", !.offset = offset,
                                         !.last_offset = offset, !.next = 1,
                                         !.records = WalRead(p, offset, batch.max_messages)]
               /\ segment_cache' = gs.cache
               /\ cache_timestamp' = gs.stamp
       /\ UNCHANGED <<wal_cfg, files, active_segments, alive, instance, nextMsg, appendHist,
                      acks, offVars, now, lastRead, storeVars, corrVars, ruleVars, procHist,
                      processed, lockVars, decVars, replayVars>>

\* process_batch, body of the loop over the records: decode_and_normalize,
\* process_message (RuleEngine::process) and last_offset = record.offset()
ProcessRecord ==
    /\ batch.pc = "records"
    /\ batch.next <= Len(batch.records)
    /\ \E pdu_type \in PduTypes :
          LET record == batch.records[batch.next]
              m == decode_and_normalize(record)
              at == <<record.partition, record.offset>>
          IN \E existing \in ExistingChoices(contexts, m) :
                LET g == get_or_create_context(store, contexts, next_unknown_id, m,
                                               pdu_type, existing)
                    done == RulesetsLoop(m, rulesets, g.key, now, 1,
                                         [states |-> sequence_states, events |-> <<>>])
                IN /\ store' = g.st
                   /\ contexts' = g.contexts
                   /\ next_unknown_id' = g.next_unknown_id
                   /\ sequence_states' = done.states
                   /\ processed' = MapPut(processed, at,
                                          IF at \notin DOMAIN processed THEN 1 ELSE SeenTwice)
                   /\ batch' = [batch EXCEPT !.next = @ + 1, !.last_offset = record.offset]
    /\ lastCleanup' = NoCleanup
    /\ UNCHANGED <<walVars, offVars, now, lastRead, rulesets, procHist, lockVars, decVars, replayVars>>

\* process_batch, end of the loop body for a partition: commit_offset when
\* last_offset > offset
CommitBatch ==
    LET p == batch.partition
        at == <<consumer_group, p>>
    IN /\ batch.pc = "records"
       /\ batch.next > Len(batch.records)
       /\ IF batch.last_offset > batch.offset
          THEN /\ consumer_offsets' = MapPut(consumer_offsets, at, batch.last_offset)
               /\ offset_files' = MapPut(offset_files, offset_file_path(consumer_group, p),
                                         batch.last_offset)
               /\ committed' = MapPut(committed, at, batch.last_offset)
          ELSE UNCHANGED <<consumer_offsets, offset_files, committed>>
       /\ batch' = ToPartition(batch, p + 1)
       /\ UNCHANGED <<walVars, lastLoad, now, lastRead, storeVars, corrVars, ruleVars,
                      procHist, processed, lockVars, decVars, replayVars>>

\* process_batch, after the loop: cleanup_expired and cleanup_expired_sequences
CleanupBatch ==
    /\ batch.pc = "cleanup"
    /\ contexts' = cleanup_expired(contexts, now)
    /\ lastCleanup' = [made |-> TRUE, before |-> contexts]
    /\ sequence_states' = cleanup_expired_sequences(sequence_states, now)
    /\ batch' = NoBatch
    /\ UNCHANGED <<walVars, offVars, now, lastRead, storeVars, next_unknown_id, rulesets,
                   procHist, processed, lockVars, decVars, replayVars>>

\* the spooler appends and flushes while the processor runs its batches
NextPipeline ==
    \/ Ingest
    \/ Flush
    \/ ProcessBatch
    \/ LoadAndRead
    \/ ProcessRecord
    \/ CommitBatch
    \/ CleanupBatch

SpecPipeline == InitStore /\ [][NextPipeline]_vars

\* what a step of ProcessRecord does to the position of the processing thread
RecordDone ==
    /\ batch.pc = "records"
    /\ batch.next <= Len(batch.records)
    /\ batch' = [batch EXCEPT !.next = @ + 1, !.last_offset = batch.records[batch.next].offset]

\* the same, the processor calling process_batch again and again and every
\* call running to its end; ProcessRecord is enabled whenever RecordDone is,
\* and only ProcessRecord makes a RecordDone step
FairPipeline ==
    /\ SpecPipeline
    /\ WF_vars(ProcessBatch)
    /\ WF_vars(LoadAndRead)
    /\ WF_batch(RecordDone)
    /\ WF_vars(CommitBatch)
    /\ WF_vars(CleanupBatch)

(***************************************************************************)
(* Claims about the pipeline                                               *)
(***************************************************************************)
\* record o of partition p is in a segment file, log and index
OnDisk(p, o) ==
    \E base \in DOMAIN files[p] :
        /\ \E k \in 1..Len(files[p][base].log) : files[p][base].log[k].offset = o
        /\ \E k \in 1..Len(files[p][base].idx) : files[p][base].idx[k].offset = o

\* C23: every record appended to a partition and flushed to disk is eventually
\* decoded and passed to the rule engine by a consumer group that keeps calling
\* process_batch, also when no further record is appended to the partition, and
\* in particular when the partition holds one record only, at offset 0.
C23_EventuallyProcessed ==
    \A p \in Partitions : \A o \in 0..(MaxAppends - 1) :
        OnDisk(p, o) ~> (<<p, o>> \in DOMAIN processed)

\* C24: for one consumer group, over any sequence of process_batch calls
\* interleaved with appends, each record (partition, offset) is decoded and
\* passed to the rule engine at most once.
C24_AtMostOnce ==
    \A at \in DOMAIN processed : processed[at] < SeenTwice

(***************************************************************************)
(* Threads calling into one WALLog: every public operation starts with     *)
(* std::lock_guard<std::mutex> lock(mutex_) and runs to its return with    *)
(* the guard alive.                                                        *)
(***************************************************************************)
Operations ==
    {"append", "read", "commit_offset", "load_offset", "flush", "prune", "get_high_water_mark"}

\* the operations that change the log
MutatingOperations == {"append", "commit_offset", "prune", "flush"}

\* the operations whose first statement takes the lock_guard on mutex_
LockedOperations ==
    {"append", "read", "commit_offset", "load_offset", "flush", "prune", "get_high_water_mark"}

\* what the threads call: the ingest threads append, flush and prune, the
\* processing thread reads and keeps its offsets
OperationsOf(t) ==
    IF t = ProcessingThread
    THEN {"load_offset", "get_high_water_mark", "read", "commit_offset"}
    ELSE {"append", "flush", "prune"}

\* append calls made and not yet returned
AppendsUnderWay == Cardinality({t \in Threads : thread_calls[t].op = "append"})

\* thread t calls an operation and arrives at its first statement; every ingest
\* thread has one message to append
Call(t) ==
    /\ alive
    /\ thread_calls[t] = NoCall
    /\ \E op \in OperationsOf(t) :
          /\ op = "append" => nextMsg + AppendsUnderWay <= NumIngestThreads
          /\ thread_calls' = [thread_calls EXCEPT ![t] = [op |-> op, pc |-> "entry"]]
    /\ UNCHANGED <<walVars, offVars, now, lastRead, storeVars, corrVars, ruleVars, procHist,
                   pipeVars, decVars, replayVars, mutex_>>

\* the lock_guard of the operation is constructed: the thread waits until
\* mutex_ is free and takes it
Lock(t) ==
    /\ thread_calls[t].pc = "entry"
    /\ IF thread_calls[t].op \in LockedOperations
       THEN mutex_ = 0 /\ mutex_' = t
       ELSE mutex_' = mutex_
    /\ thread_calls' = [thread_calls EXCEPT ![t].pc = "body"]
    /\ UNCHANGED <<walVars, offVars, now, lastRead, storeVars, corrVars, ruleVars, procHist,
                   pipeVars, decVars, replayVars>>

\* the operation returns: the lock_guard is destroyed
Leave(t) ==
    /\ thread_calls' = [thread_calls EXCEPT ![t] = NoCall]
    /\ mutex_' = IF mutex_ = t THEN 0 ELSE mutex_

InBody(t, op) == thread_calls[t] = [op |-> op, pc |-> "body"]

\* the body of append, on a partition whose segment is not full
AppendReturns(t) ==
    /\ InBody(t, "append")
    /\ \E h \in Partitions, spill \in BOOLEAN : AppendOp(h, spill, FALSE)
    /\ lastRead' = Appended
    /\ Leave(t)
    /\ UNCHANGED <<wal_cfg, segment_cache, cache_timestamp, alive, instance, now, offVars,
                   storeVars, corrVars, ruleVars, procHist, pipeVars, decVars, replayVars>>

\* the body of read; the processing thread consumes partition 0
ReadReturns(t) ==
    /\ InBody(t, "read")
    /\ ReadOp(0, 0, MaxAppends)
    /\ Leave(t)
    /\ UNCHANGED <<offVars, storeVars, corrVars, ruleVars, procHist, pipeVars, decVars, replayVars>>

\* the body of commit_offset
CommitReturns(t) ==
    /\ InBody(t, "commit_offset")
    /\ \E offset \in CommitOffsets :
          /\ consumer_offsets' = MapPut(consumer_offsets, <<consumer_group, 0>>, offset)
          /\ offset_files' = MapPut(offset_files, offset_file_path(consumer_group, 0), offset)
          /\ committed' = MapPut(committed, <<consumer_group, 0>>, offset)
    /\ lastLoad' = NoLoad
    /\ Leave(t)
    /\ UNCHANGED <<walVars, now, lastRead, storeVars, corrVars, ruleVars, procHist, pipeVars, decVars, replayVars>>

\* the body of load_offset
LoadReturns(t) ==
    /\ InBody(t, "load_offset")
    /\ lastLoad' = [group |-> consumer_group, partition |-> 0,
                    value |-> load_offset(consumer_offsets, consumer_group, 0),
                    made |-> TRUE]
    /\ Leave(t)
    /\ UNCHANGED <<walVars, now, lastRead, consumer_offsets, offset_files, committed,
                   storeVars, corrVars, ruleVars, procHist, pipeVars, decVars, replayVars>>

\* the body of flush_all_segments
FlushReturns(t) ==
    /\ InBody(t, "flush")
    /\ active_segments' = [p \in Partitions |->
          IF active_segments[p] = NoSeg THEN NoSeg
          ELSE flush_segment_buffers(active_segments[p],
                                     files[p][active_segments[p].base_offset]).seg]
    /\ files' = [p \in Partitions |->
          IF active_segments[p] = NoSeg THEN files[p]
          ELSE [files[p] EXCEPT ![active_segments[p].base_offset] =
                   flush_segment_buffers(active_segments[p], @).file]]
    /\ lastRead' = NoRead
    /\ Leave(t)
    /\ UNCHANGED <<wal_cfg, segment_cache, cache_timestamp, alive, instance, nextMsg,
                   appendHist, acks, now, offVars, storeVars, corrVars, ruleVars, procHist,
                   pipeVars, decVars, replayVars>>

\* the bodies of prune_old_segments and get_high_water_mark change nothing
QueryReturns(t) ==
    /\ InBody(t, "prune") \/ InBody(t, "get_high_water_mark")
    /\ Leave(t)
    /\ UNCHANGED <<walVars, offVars, now, lastRead, storeVars, corrVars, ruleVars, procHist,
                   pipeVars, decVars, replayVars>>

NextLocks ==
    \E t \in Threads :
        \/ Call(t)
        \/ Lock(t)
        \/ AppendReturns(t)
        \/ ReadReturns(t)
        \/ CommitReturns(t)
        \/ LoadReturns(t)
        \/ FlushReturns(t)
        \/ QueryReturns(t)

SpecLocks == InitStore /\ [][NextLocks]_vars

\* the threads that are inside an operation of the log
Inside == {t \in Threads : thread_calls[t].pc = "body"}

\* C30: all operations of one log instance (append, read, commit_offset,
\* load_offset, flush, prune and get_high_water_mark) are mutually exclusive:
\* at most one of them executes inside the log at any moment, also when several
\* ingest threads call append while the processing thread reads and commits.
C30_MutualExclusion == Cardinality(Inside) <= 1

\* an ingest thread is inside append while another ingest thread has called
\* append and the processing thread has called read, both waiting for mutex_
C30_Witness ==
    \E t, u \in Threads \ {ProcessingThread} :
        /\ t # u
        /\ InBody(t, "append")
        /\ mutex_ = t
        /\ thread_calls[u] = [op |-> "append", pc |-> "entry"]
        /\ thread_calls[ProcessingThread] = [op |-> "read", pc |-> "entry"]

(***************************************************************************)
(* Replays: the records of one spool are handed, in their order, to        *)
(* decode_and_normalize and to process_message by a Pipeline, and once     *)
(* more by a Pipeline constructed afterwards with the same rulesets.       *)
(***************************************************************************)
\* what decode_and_normalize makes of the spool's records: a handover of one UE
ReplaySpool ==
    <<CanonicalMessage("HandoverRequired", <<>>, <<>>, MmeY, 0),
      CanonicalMessage("HandoverNotify", <<>>, <<>>, MmeY, 0)>>

\* the body of the loop of Pipeline::process_batch over the records for the
\* next record of the spool: the events returned by process_message are emitted
ReplayRecord ==
    /\ replay.pos <= Len(ReplaySpool)
    /\ ProcessOf({ReplaySpool[replay.pos]})
    /\ replay' = [replay EXCEPT !.pos = @ + 1,
                                !.events[replay.run] = @ \o procHist'[Len(procHist')].events]
    /\ UNCHANGED <<walVars, offVars, pipeVars, lockVars, decVars, now, lastRead, rulesets>>

\* Pipeline::Pipeline for the second run: a new correlator and a new rule
\* engine, the same rulesets loaded, the spool read from its first record
RestartReplay ==
    /\ replay.run = 1
    /\ replay.pos > Len(ReplaySpool)
    /\ store' = NewStore
    /\ contexts' = <<>>
    /\ next_unknown_id' = 1
    /\ lastCleanup' = NoCleanup
    /\ sequence_states' = <<>>
    /\ procHist' = <<>>
    /\ replay' = [replay EXCEPT !.run = 2, !.pos = 1]
    /\ UNCHANGED <<walVars, offVars, pipeVars, lockVars, decVars, now, lastRead, rulesets>>

NextReplay ==
    \/ LoadRuleset
    \/ ReplayRecord
    \/ RestartReplay
    \/ Advance

SpecReplay == InitStore /\ [][NextReplay]_vars

\* C21: two runs over the same spool with the same rules emit the same
\* sequence of events: names, subscriber keys, attributes and evidence
C21_DeterministicReplay ==
    (replay.run = 2 /\ replay.pos > Len(ReplaySpool)) => replay.events[1] = replay.events[2]

(***************************************************************************)
(* RealS1APDecoder: an S1AP PDU is its CHOICE index, its procedure code    *)
(* and its protocol IEs, each an IE id with the octets of its value.       *)
(***************************************************************************)
id_S_TMSI == 96
id_EUTRAN_CGI == 100
\* octets of IE values: 00, AD, BE, DE, EF
Octets == {0, 173, 190, 222, 239}
OctetStrings == UNION {[1..n -> Octets] : n \in 0..MaxIeLen}

\* the PDUs handed to decode: initiating messages of procedure initialUEMessage
\* with one IE, the S-TMSI or the EUTRAN-CGI
Pdus ==
    [procedure_code : {id_initialUEMessage}, pdu_type : {INITIATING_MESSAGE},
     ies : {<<[id |-> i, value |-> v]>> : i \in {id_S_TMSI, id_EUTRAN_CGI}, v \in OctetStrings}]

getIeNameFromId(ie_id) ==
    CASE ie_id = id_S_TMSI -> "S-TMSI"
      [] ie_id = id_EUTRAN_CGI -> "EUTRAN-CGI"

\* full_value_hex << std::hex << std::setfill('0') << std::setw(2) << octet, for each octet
RECURSIVE full_value_hex(_)
full_value_hex(octets) ==
    IF octets = <<>> THEN <<>> ELSE ToHex(Head(octets), 2) \o full_value_hex(Tail(octets))

\* s1ap_parser::parseS1apPdu: every IE value is stored as a hex string under its name
parseS1apPdu(frame) ==
    [decoded |-> TRUE, procedure_code |-> frame.procedure_code, pdu_type |-> frame.pdu_type,
     information_elements |->
         [name \in {getIeNameFromId(frame.ies[i].id) : i \in DOMAIN frame.ies} |->
             LET i == CHOOSE j \in DOMAIN frame.ies : getIeNameFromId(frame.ies[j].id) = name
             IN full_value_hex(frame.ies[i].value)]]

toupper(c) ==
    CASE c = "a" -> "A" [] c = "b" -> "B" [] c = "c" -> "C"
      [] c = "d" -> "D" [] c = "e" -> "E" [] c = "f" -> "F" [] OTHER -> c

\* s1ap_parser::extractTmsiFromIEList, the path of extractTmsisFromS1ap that the
\* subscriber store takes: the last 8 hex characters of the S-TMSI IE
extractTmsiFromIEList(information_elements) ==
    IF "S-TMSI" \notin DOMAIN information_elements THEN <<>>
    ELSE LET s_tmsi_hex == information_elements["S-TMSI"]
             m_tmsi_hex == SubSeq(s_tmsi_hex, Len(s_tmsi_hex) - 7, Len(s_tmsi_hex))
             hex == SelectSeq(m_tmsi_hex, isxdigit)
             normalized == [i \in 1..Len(hex) |-> toupper(hex[i])]
         IN IF Len(s_tmsi_hex) < 10 THEN <<>>
            ELSE IF Len(normalized) = 8 THEN <<normalized>> ELSE <<>>

\* s1ap_parser::extractTmsiFromS1apBytes: the vector is returned as it was constructed
extractTmsiFromS1apBytes(s1ap_bytes) == <<>>

\* map_procedure_to_msg_type, for the PDUs of Pdus
map_procedure_to_msg_type(procedure_code, pdu_type) ==
    IF procedure_code = id_initialUEMessage /\ pdu_type = INITIATING_MESSAGE
    THEN "initialUEMessage" ELSE "Unknown"

\* a PDU arrives at the decoder
Receive ==
    /\ raw_frame = NoFrame
    /\ raw_frame' \in Pdus
    /\ canonical_message' = NoCanonical
    /\ UNCHANGED <<walVars, offVars, now, lastRead, storeVars, corrVars, ruleVars, procHist,
                   pipeVars, lockVars, replayVars>>

\* RealS1APDecoder::decode
Decode ==
    /\ raw_frame # NoFrame
    /\ canonical_message = NoCanonical
    /\ LET parse_result == parseS1apPdu(raw_frame)
           tmsis == extractTmsiFromS1apBytes(raw_frame)
       IN canonical_message' =
              [decoded |-> parse_result.decoded,
               procedure_code |-> parse_result.procedure_code,
               msg_type |-> map_procedure_to_msg_type(parse_result.procedure_code,
                                                      parse_result.pdu_type),
               tmsi |-> IF tmsis # <<>> THEN tmsis[1] ELSE <<>>]
    /\ UNCHANGED <<walVars, offVars, now, lastRead, storeVars, corrVars, ruleVars, procHist,
                   pipeVars, lockVars, replayVars, raw_frame>>

NextDecode ==
    \/ Receive
    \/ Decode

SpecDecode == InitStore /\ [][NextDecode]_vars

(***************************************************************************)
(* Claims about the decoder                                                *)
(***************************************************************************)
\* the S-TMSI IE of Scenario E: mMEC 00, m-TMSI DE AD BE EF
ScenarioE_S_TMSI == <<0, 222, 173, 190, 239>>
IsScenarioE(frame) ==
    /\ frame.procedure_code = id_initialUEMessage
    /\ frame.pdu_type = INITIATING_MESSAGE
    /\ \E i \in DOMAIN frame.ies :
          frame.ies[i].id = id_S_TMSI /\ frame.ies[i].value = ScenarioE_S_TMSI

\* C22: the canonical message decoded from an initialUEMessage whose S-TMSI IE
\* is 00 DE AD BE EF has the TMSI "deadbeef", the last four octets of the IE in
\* lowercase hex
C22_TmsiFromSTmsiIe ==
    (IsScenarioE(raw_frame) /\ canonical_message # NoCanonical)
        => canonical_message.tmsi = <<"d", "e", "a", "d", "b", "e", "e", "f">>

(***************************************************************************)
(* Claims about the rule engine                                            *)
(***************************************************************************)
\* the events emitted for a sequence rule when the message of entry was processed
EventsFor(entry, ruleset, rule) ==
    {e \in 1..Len(entry.events) :
        /\ entry.events[e].name = rule.event_name
        /\ entry.events[e].ruleset_id = ruleset.id}

\* message i and message j are the only messages of their subscriber, up to j,
\* whose type is the first or the second type of the rule
OnlyPair(i, j, rule) ==
    \A k \in (1..j) \ {i, j} :
        procHist[k].subscriber = procHist[i].subscriber
            => procHist[k].msg.msg_type \notin {rule.first_msg_type, rule.second_msg_type}

\* C6: for a loaded sequence rule (A, B, W) and a subscriber whose message of
\* type A is processed at time t and whose message of type B is processed at
\* time t + d: if d <= W exactly one event of the rule is emitted when B is
\* processed, and if d > W no event of the rule is emitted from that pair.
C6_SequenceWithinWindow ==
    \A s \in 1..Len(rulesets) :
        \A r \in 1..Len(rulesets[s].sequence_rules) :
            \A i, j \in 1..Len(procHist) :
                LET rule == rulesets[s].sequence_rules[r]
                    A == procHist[i]
                    B == procHist[j]
                    d == (B.at - A.at) * TickMs
                    emitted == EventsFor(B, rulesets[s], rule)
                IN (/\ i < j
                    /\ A.msg.msg_type = rule.first_msg_type
                    /\ B.msg.msg_type = rule.second_msg_type
                    /\ A.subscriber # 0
                    /\ A.subscriber = B.subscriber
                    /\ OnlyPair(i, j, rule))
                   => IF d <= rule.time_window
                      THEN Cardinality(emitted) = 1
                      ELSE \A e \in emitted :
                              \A x \in 1..Len(B.events[e].evidence) :
                                  B.events[e].evidence[x] # SpoolOffset(A.msg)

\* the event was emitted by a sequence rule of a loaded ruleset
IsSequenceEvent(event) ==
    \E s \in 1..Len(rulesets) :
        /\ rulesets[s].id = event.ruleset_id
        /\ \E r \in 1..Len(rulesets[s].sequence_rules) :
              rulesets[s].sequence_rules[r].event_name = event.name

\* C7: every event emitted by a sequence rule carries an evidence chain of
\* exactly two entries: the (partition, offset) of the first message of the
\* sequence, then the (partition, offset) of the current (second) message.
C7_SequenceEvidence ==
    \A j \in 1..Len(procHist) :
        \A e \in 1..Len(procHist[j].events) :
            LET event == procHist[j].events[e]
            IN IsSequenceEvent(event)
               => /\ Len(event.evidence) = 2
                  /\ \E i \in 1..(j - 1) : event.evidence[1] = SpoolOffset(procHist[i].msg)
                  /\ event.evidence[2] = SpoolOffset(procHist[j].msg)

AgedOut(state, t) ==
    \/ ElapsedMs(t, state.first_seen) > max_sequence_age * 1000
    \/ \E s \in 1..Len(rulesets) :
          /\ rulesets[s].id = state.ruleset_id
          /\ \E r \in 1..Len(rulesets[s].sequence_rules) :
                /\ rulesets[s].sequence_rules[r].first_msg_type = state.first_msg_type
                /\ ElapsedMs(t, state.first_seen) > rulesets[s].sequence_rules[r].time_window

\* the SequenceStates held for a subscriber key
StatesOf(states, k) == IF k \in DOMAIN states THEN states[k] ELSE <<>>

\* C17: cleanup_expired_sequences removes every SequenceState whose age exceeds
\* the time window of the sequence rule that created it, or exceeds the
\* absolute 60-second cap, and keeps every other SequenceState.
C17_CleanupBySequenceAge ==
    [][(procHist' = procHist /\ rulesets' = rulesets /\ now' = now)
         => \A k \in DOMAIN sequence_states :
               StatesOf(sequence_states', k)
                   = SelectSeq(sequence_states[k], LAMBDA state : ~AgedOut(state, now))]_vars

\* C26: when several sequence rules that share the same first message type are
\* loaded, a SequenceState created for one rule is consumed by that rule only:
\* one first message followed by one second message of a subscriber emits at
\* most one event per rule whose (first, second) pair matches the two messages.
C26_StateConsumedByOwnRule ==
    \A s \in 1..Len(rulesets) :
        \A r \in 1..Len(rulesets[s].sequence_rules) :
            \A i, j \in 1..Len(procHist) :
                LET rule == rulesets[s].sequence_rules[r]
                IN (/\ i < j
                    /\ procHist[i].msg.msg_type = rule.first_msg_type
                    /\ procHist[j].msg.msg_type = rule.second_msg_type
                    /\ procHist[i].subscriber # 0
                    /\ procHist[i].subscriber = procHist[j].subscriber
                    /\ procHist[i].key = procHist[j].key
                    /\ OnlyPair(i, j, rule))
                   => Cardinality(EventsFor(procHist[j], rulesets[s], rule)) <= 1

\* the subscriber key of the UE of message i was changed by a message
\* processed between message i and message j
KeyChangedBetween(i, j) ==
    \E k \in (i + 1)..(j - 1) :
        /\ procHist[k].subscriber = procHist[i].subscriber
        /\ procHist[k].key # procHist[i].key

\* C27: if the first message A of a sequence rule (A, B, W) has been processed
\* for a UE and, before B arrives, other messages of the same UE change its
\* subscriber key (an S1AP-id key is upgraded to an IMSI key), the rule still
\* emits its event when B of that UE is processed within W of A.
C27_SequenceSurvivesKeyChange ==
    \A s \in 1..Len(rulesets) :
        \A r \in 1..Len(rulesets[s].sequence_rules) :
            \A i, j \in 1..Len(procHist) :
                LET rule == rulesets[s].sequence_rules[r]
                IN (/\ i < j
                    /\ procHist[i].msg.msg_type = rule.first_msg_type
                    /\ procHist[j].msg.msg_type = rule.second_msg_type
                    /\ procHist[i].subscriber # 0
                    /\ procHist[i].subscriber = procHist[j].subscriber
                    /\ KeyChangedBetween(i, j)
                    /\ OnlyPair(i, j, rule)
                    /\ (procHist[j].at - procHist[i].at) * TickMs <= rule.time_window)
                   => EventsFor(procHist[j], rulesets[s], rule) # {}

\* C28: two messages for which the correlator returned no subscriber key (the
\* empty key: neither carries an identifier) are never paired with each other
\* by a sequence rule: a sequence event is emitted only when its first and its
\* second message were correlated to the same identified subscriber.
C28_NoPairingWithoutKey ==
    \A j \in 1..Len(procHist) :
        \A e \in 1..Len(procHist[j].events) :
            LET event == procHist[j].events[e]
            IN IsSequenceEvent(event)
               => /\ procHist[j].key # <<>>
                  /\ \A i \in 1..(j - 1) :
                        SpoolOffset(procHist[i].msg) \in {event.evidence[x] :
                                                             x \in 1..Len(event.evidence)}
                            => procHist[i].key = procHist[j].key

(***************************************************************************)
(* Claims about the correlator                                             *)
(***************************************************************************)
\* what a message carries
CarriesImsi(m) == m.imsi = ImsiX \/ m.nas_imsi = <<ImsiX>>
NoImsi(m) == m.imsi = <<>> /\ m.nas_imsi = <<>>
OnlyMme(m) == NoImsi(m) /\ m.mme_ue_s1ap_id = MmeY /\ m.enb_ue_s1ap_id = 0
ImsiAndMme(m) == CarriesImsi(m) /\ m.mme_ue_s1ap_id = MmeY /\ m.enb_ue_s1ap_id = 0
OnlyImsi(m) == CarriesImsi(m) /\ m.mme_ue_s1ap_id = 0 /\ m.enb_ue_s1ap_id = 0
IsRelease(m) == m.msg_type = UEContextReleaseComplete

\* C8: after M1 (carrying IMSI X and MME-UE-S1AP-ID Y) and then M2 (carrying
\* only MME-UE-S1AP-ID Y) went through the correlator, both are resolved to
\* the same subscriber record and that record has IMSI X.
C8_SameRecordWithImsi ==
    LET n == Len(procHist)
    IN (/\ n >= 2
        /\ ImsiAndMme(procHist[n - 1].msg) /\ ~IsRelease(procHist[n - 1].msg)
        /\ OnlyMme(procHist[n].msg) /\ ~IsRelease(procHist[n].msg))
       => /\ procHist[n].subscriber # 0
          /\ procHist[n - 1].subscriber = procHist[n].subscriber
          /\ store.subscriber_records[procHist[n].subscriber].imsi = {ImsiX}

\* C9: late binding: after message 1 (only MME-UE-S1AP-ID 77), message 2
\* (MME-UE-S1AP-ID 77 and IMSI 001010123456789) and message 3 (only that IMSI),
\* all three are mapped to one and the same subscriber record, no second record
\* exists, and the record has that IMSI and MME-UE-S1AP-ID 77.
C9_LateBinding ==
    (/\ Len(procHist) = 3
     /\ \A k \in 1..3 : ~IsRelease(procHist[k].msg)
     /\ OnlyMme(procHist[1].msg)
     /\ ImsiAndMme(procHist[2].msg)
     /\ OnlyImsi(procHist[3].msg))
    => /\ procHist[1].subscriber # 0
       /\ procHist[2].subscriber = procHist[1].subscriber
       /\ procHist[3].subscriber = procHist[1].subscriber
       /\ DOMAIN store.subscriber_records = {procHist[1].subscriber}
       /\ store.subscriber_records[procHist[1].subscriber].imsi = {ImsiX}
       /\ store.subscriber_records[procHist[1].subscriber].mme_ue_s1ap_id = {MmeY}

\* C10: after a UEContextReleaseComplete was processed for a subscriber S that
\* was known before, S's record has neither an MME-UE-S1AP-ID nor an
\* eNB-UE-S1AP-ID, the MME and eNB indexes no longer contain the values S held
\* before the release, and S's IMSI, TMSI and IMEISV are unchanged.
C10_ReleaseClearsS1apIds ==
    LET n == Len(procHist)
    IN (/\ n >= 1
        /\ IsRelease(procHist[n].msg)
        /\ procHist[n].subscriber # 0
        /\ procHist[n].before # NewRecord)
       => LET rec == store.subscriber_records[procHist[n].subscriber]
              before == procHist[n].before
          IN /\ rec.mme_ue_s1ap_id = {}
             /\ rec.enb_ue_s1ap_id = {}
             /\ \A v \in before.mme_ue_s1ap_id :
                   v \notin DOMAIN store.mme_ue_s1ap_id_to_subscriber_id
             /\ \A v \in before.enb_ue_s1ap_id :
                   v \notin DOMAIN store.enb_ue_s1ap_id_to_subscriber_id
             /\ rec.imsi = before.imsi
             /\ rec.tmsi = before.tmsi
             /\ rec.imeisv = before.imeisv

\* the message carries IMSI X in its imsi field together with both S1AP ids
ImsiMmeEnb(m) ==
    m.imsi = ImsiX /\ m.mme_ue_s1ap_id = MmeY /\ m.enb_ue_s1ap_id = EnbZ /\ ~IsRelease(m)

\* two entries of procHist are calls with the same message
SameMessage(a, b) == [a.msg EXCEPT !.spool_offset = 0] = [b.msg EXCEPT !.spool_offset = 0]

\* C15: get_or_create_context on a message that carries an IMSI (together with
\* an MME-UE-S1AP-ID and an eNB-UE-S1AP-ID) returns the subscriber key
\* "imsi:<IMSI>"; calling it again with the same message returns the same key,
\* and get_context on that key returns a context whose IMSI is that IMSI.
C15_ImsiKey ==
    LET n == Len(procHist)
    IN (n >= 1 /\ ImsiMmeEnb(procHist[n].msg))
       => /\ procHist[n].key = <<"imsi:">> \o ImsiX
          /\ procHist[n].key \in DOMAIN contexts
          /\ contexts[procHist[n].key].imsi = {ImsiX}
          /\ (n >= 2 /\ SameMessage(procHist[n - 1], procHist[n]))
                => procHist[n - 1].key = procHist[n].key

\* the priority tier of a subscriber key
Tier(key) ==
    IF StartsWith(key, "imsi:") THEN 4
    ELSE IF StartsWith(key, "tmsi:") THEN 3
    ELSE IF StartsWith(key, "mme_ue_s1ap_id:") THEN 2
    ELSE IF StartsWith(key, "enb_ue_s1ap_id:") THEN 1
    ELSE 0

\* the key generated from the subscriber record an entry of procHist was resolved to
GeneratedKey(entry) == KeyOf(store.subscriber_records[entry.subscriber], next_unknown_id)

\* the last call found an existing context and generated a key of a higher tier
Upgrades(entry) ==
    /\ has_value(entry.existing_key)
    /\ entry.subscriber # 0
    /\ ~IsRelease(entry.msg)
    /\ Tier(GeneratedKey(entry)) > Tier(value(entry.existing_key))

\* C16: whenever a later message yields a subscriber key of a higher priority
\* tier (IMSI > TMSI > MME-UE-S1AP-ID > eNB-UE-S1AP-ID > unknown_<n>) than the
\* key under which the UE's existing context is stored, the context is moved to
\* the new key and the old key entry is removed, so afterwards the context is
\* stored under the new key only.
C16_KeyUpgrade ==
    LET n == Len(procHist)
    IN (n >= 1 /\ Upgrades(procHist[n]))
       => /\ procHist[n].key = GeneratedKey(procHist[n])
          /\ GeneratedKey(procHist[n]) \in DOMAIN contexts
          /\ value(procHist[n].existing_key) \notin DOMAIN contexts

\* C18: cleanup_expired removes a UEContext if and only if
\* now - last_seen > context_expiry at the time of the call: every context
\* inactive for longer than context_expiry is removed and no other context is
\* removed.
C18_RemovedIffInactive ==
    lastCleanup.made
        => \A k \in DOMAIN lastCleanup.before :
              k \notin DOMAIN contexts
                  <=> (now - lastCleanup.before[k].last_seen) * ContextTickMs
                          > context_expiry * 1000

\* C18 as the code has it: cleanup_expired removes a UEContext if and only if
\* the whole seconds elapsed since last_seen exceed context_expiry, that is if
\* the context has been inactive for context_expiry + 1 seconds or longer; the
\* contexts kept are left as they were.
C18_RemovedIffWholeSecondsExceed ==
    lastCleanup.made
        => /\ \A k \in DOMAIN lastCleanup.before :
                 k \notin DOMAIN contexts
                     <=> (now - lastCleanup.before[k].last_seen) * ContextTickMs
                             >= (context_expiry + 1) * 1000
           /\ \A k \in DOMAIN contexts :
                 k \in DOMAIN lastCleanup.before /\ contexts[k] = lastCleanup.before[k]

\* a cleanup removed one context and kept another that had been inactive for
\* longer than context_expiry but for less than a whole second more
C18_Witness ==
    /\ lastCleanup.made
    /\ \E k \in DOMAIN lastCleanup.before : k \notin DOMAIN contexts
    /\ \E k \in DOMAIN contexts :
          (now - contexts[k].last_seen) * ContextTickMs > context_expiry * 1000

\* the handover-in-progress flag of the context a call found, FALSE without one
FlagBefore(entry) ==
    IF has_value(entry.existing_key) /\ value(entry.existing_key) \in DOMAIN contexts
    THEN contexts[value(entry.existing_key)].handover_in_progress
    ELSE FALSE

\* the flag the handover state machine gives after a message of the type
FlagAfter(msg_type, before) ==
    IF msg_type \in {"HandoverRequired", "HandoverCommand"} THEN TRUE
    ELSE IF msg_type = "HandoverNotify" THEN FALSE
    ELSE before

\* C19: for every UEContext maintained by the correlator, the
\* handover-in-progress flag follows the message types processed for that UE:
\* HandoverRequired and HandoverCommand set it, HandoverNotify clears it, and
\* any other message type leaves it unchanged.
C19_HandoverFlag ==
    [][Len(procHist') = Len(procHist) + 1
         => LET entry == procHist'[Len(procHist')]
            IN entry.key \in DOMAIN contexts'
                  => contexts'[entry.key].handover_in_progress
                         = FlagAfter(entry.msg.msg_type, FlagBefore(entry))]_vars

\* the sequence without its element i
RemoveAt(seq, i) == SubSeq(seq, 1, i - 1) \o SubSeq(seq, i + 1, Len(seq))

\* the loaded rulesets without single-message rule i of ruleset s
OtherRules(s, i) ==
    [rulesets EXCEPT ![s].single_message_rules = RemoveAt(@, i)]

\* C20: if evaluating one rule on a message raises an exception, only that
\* rule's evaluation is skipped: every other rule of every loaded ruleset is
\* still evaluated on that message and the events of those other rules are
\* emitted.
C20_OnlyFailingRuleSkipped ==
    [][(Len(procHist') = Len(procHist) + 1 /\ procHist'[Len(procHist')].thrown # <<>>)
         => LET entry == procHist'[Len(procHist')]
                others == RulesetsLoop(entry.msg,
                                       OtherRules(entry.thrown[1], entry.thrown[2]),
                                       entry.key, now, 1,
                                       [states |-> sequence_states, events |-> <<>>])
            IN entry.events = others.events]_vars

\* the values of an index that point to subscriber record id
PointingTo(st, kind, id) ==
    {v \in DOMAIN IndexOf(st, kind) : IndexOf(st, kind)[v] = id}

\* C29: processing a UEContextReleaseComplete message for subscriber S changes
\* no other subscriber: for every record R other than the record of S, the
\* identifier fields of R and the index entries pointing to R are the same
\* after the release as before it.
C29_ReleaseLeavesOthers ==
    [][(/\ Len(procHist') = Len(procHist) + 1
        /\ IsRelease(procHist'[Len(procHist')].msg)
        /\ procHist'[Len(procHist')].subscriber # 0)
          => \A id \in DOMAIN store.subscriber_records \ {procHist'[Len(procHist')].subscriber} :
                /\ RecordOf(store', id) = store.subscriber_records[id]
                /\ \A kind \in Kinds :
                      PointingTo(store', kind, id) = PointingTo(store, kind, id)]_vars

====
